---- MODULE Spec2Model ----
(***************************************************************************)
(* A model of the kichn server: the DatabaseClient (Redis JSON documents   *)
(* plus the Meilisearch indices it keeps beside them), and the aiohttp     *)
(* route handlers built on it.                                             *)
(*                                                                         *)
(* Modelling conventions                                                   *)
(*  - A Python dict / JSON object is a function whose DOMAIN is its key    *)
(*    set; a Python list is a sequence.                                    *)
(*  - An Optional value is a sequence of length 0 (None) or 1.  A date is  *)
(*    its day number since 1970-01-01, so Optional[date] is <<>> or <<n>>. *)
(*  - A "world" is a record of the stores a DatabaseClient call reads and  *)
(*    writes, with the exception it raised (if any) in field exc.  Calls   *)
(*    are functions from worlds to worlds, composed as the code composes   *)
(*    them; a raise keeps the writes made before it.                       *)
(*  - _gen_random_id draws 6 random characters; the model draws an unused  *)
(*    identifier, i.e. two draws never collide.                            *)
(*  - A Meilisearch index holds the documents of the add/delete requests   *)
(*    sent so far (the engine applies its task queue in order; the model   *)
(*    looks at the index once the queue has drained).                      *)
(***************************************************************************)
EXTENDS Integers, Sequences, FiniteSets, TLC

VARIABLES
    users,       \* Redis keys "user:{email}":  email -> user document
    kitchens,    \* Redis key "kitchens":       kitchen id -> kitchen document
    products,    \* Redis key "products":       product id -> [name, category]
    authTokens,  \* Redis hash "auth-tokens":   token -> email
    index,       \* Meilisearch: index name -> (document id -> name)
    _default_index_buffer,  \* SearchClient: queued default products, id -> name
    utcOffset,   \* the server's local time zone, seconds east of UTC
    ws_manager,  \* the tables of the server's WebSocketManager
    clients,     \* session -> what its browser did: its latest subscribe, its socket
    inflight,    \* session -> the request of it that the server is handling
    scraper,     \* the catalog scraper's run: its tasks and the pages it fetched
    networker,   \* the client's Networker: its queues, its loops, what it did
    orchestrator, \* main.py: its place in main and the service processes
    last         \* the call made by the last step, its result, and what it found

vars == <<users, kitchens, products, authTokens, index,
          _default_index_buffer, utcOffset, ws_manager,
          clients, inflight, scraper,
          networker, orchestrator, last>>

----------------------------------------------------------------------------
(* Bounds and input domains *)

\* Cap on the units of one product held in one kitchen (grocery + inventory).
MaxUnits == 3

Emails == {"alice", "bob", "carol"}
Passwords == {"pw1", "pw2"}
KitchenIds == {"k1", "k2"}
KitchenNames == {"Home"}

\* The default catalog written by the scraper, and an id that is in no catalog.
Catalog ==
    [p \in {"p1", "p2"} |->
        IF p = "p1" THEN [name |-> "Apple", category |-> "Fruit"]
                    ELSE [name |-> "Bread", category |-> "Bakery"]]
UnknownProduct == "zz"

\* Expiry dates as the (year, month, day) tuples of the buy form.
ExpiryTuples == {<<2025, 1, 10>>, <<2025, 6, 1>>}
UtcOffsets == {-18000, 0, 28800}
Queries == {"", "Apple", "Bread"}

None == <<>>
NoExc == "none"

----------------------------------------------------------------------------
(* Python / JSON helpers *)

MapPut(m, k, v) == [x \in (DOMAIN m) \cup {k} |-> IF x = k THEN v ELSE m[x]]
MapDel(m, k) == [x \in (DOMAIN m) \ {k} |-> m[x]]
MapGet(m, k, default) == IF k \in DOMAIN m THEN m[k] ELSE default

RECURSIVE SumValues(_)
SumValues(m) ==
    IF DOMAIN m = {} THEN 0
    ELSE LET k == CHOOSE x \in DOMAIN m : TRUE
         IN m[k] + SumValues(MapDel(m, k))

\* Faulty variant of SumAmounts: counts the first entry only.
SumAmountsFirstOnly(pairs) == IF pairs = <<>> THEN 0 ELSE Head(pairs)[2]

RECURSIVE SumAmounts(_)
SumAmounts(pairs) ==
    IF pairs = <<>> THEN 0 ELSE Head(pairs)[2] + SumAmounts(Tail(pairs))

Contains(list, x) == \E i \in 1..Len(list) : list[i] = x

\* list.remove(x): drops the first occurrence (the caller checks Contains).
ListRemove(list, x) ==
    LET i == CHOOSE j \in 1..Len(list) :
                 list[j] = x /\ \A h \in 1..(j - 1) : list[h] # x
    IN [j \in 1..(Len(list) - 1) |-> IF j < i THEN list[j] ELSE list[j + 1]]

\* datetime.date(year, month, day), as days since 1970-01-01.
date(ymd) ==
    LET y   == IF ymd[2] <= 2 THEN ymd[1] - 1 ELSE ymd[1]
        era == y \div 400
        yoe == y - era * 400
        mp  == (ymd[2] + 9) % 12
        doy == (153 * mp + 2) \div 5 + ymd[3] - 1
        doe == yoe * 365 + yoe \div 4 - yoe \div 100 + doy
    IN era * 146097 + doe - 719468

\* int(time.mktime(d.timetuple())): local midnight of day d as a Unix time.
mktime(d, offset) == d * 86400 - offset

\* Faulty variant of fromtimestamp: the UTC day, whatever the time zone.
utcfromtimestamp(ts, offset) == ts \div 86400

\* date.fromtimestamp(float(ts)): the local calendar day that holds ts.
fromtimestamp(ts, offset) == (ts + offset) \div 86400

Dates == {date(t) : t \in ExpiryTuples}

\* Python's order on the strings the model uses (str.__lt__).
Alphabet ==
    <<"Apple", "Bakery", "Bread", "Butter", "Custom product", "Dairy", "Fruit",
      "Milk", "Milk Bun", "Oat Milk", "Unowned products", "Vegan">>
Rank(str) == CHOOSE i \in 1..Len(Alphabet) : Alphabet[i] = str

\* Faulty variant of SortPairs: the items stay in their order of arrival.
SortPairsUnsorted(pairs) == pairs

\* sorted(...) / list.sort(...) over <<key, value>> pairs with integer keys:
\* ascending by key, equal keys kept in their order of arrival (stable).
RECURSIVE SortPairs(_)
SortPairs(pairs) ==
    IF pairs = <<>> THEN <<>>
    ELSE LET front == SortPairs(SubSeq(pairs, 1, Len(pairs) - 1))
             x == pairs[Len(pairs)]
             n == Cardinality({i \in 1..Len(front) : front[i][1] <= x[1]})
         IN SubSeq(front, 1, n) \o <<x>> \o SubSeq(front, n + 1, Len(front))

Values(pairs) == [i \in 1..Len(pairs) |-> pairs[i][2]]

\* The order in which the engine (or a Python set) hands out a set of ids.
RECURSIVE Listed(_)
Listed(set) ==
    IF set = {} THEN <<>>
    ELSE LET x == CHOOSE y \in set : TRUE IN <<x>> \o Listed(set \ {x})

\* Faulty variant of Min: the latest date.
Latest(set) == CHOOSE x \in set : \A y \in set : x >= y

\* min(...) over a non-empty set of dates.
Min(set) == CHOOSE x \in set : \A y \in set : x <= y

----------------------------------------------------------------------------
(* Worlds *)

World ==
    [users |-> users, kitchens |-> kitchens, products |-> products,
     authTokens |-> authTokens, index |-> index,
     buffer |-> _default_index_buffer, offset |-> utcOffset,
     exc |-> NoExc, ret |-> "None"]

Raise(w, e) == [w EXCEPT !.exc = e]
Return(w, v) == [w EXCEPT !.ret = v]

Commit(w) ==
    /\ users' = w.users
    /\ kitchens' = w.kitchens
    /\ products' = w.products
    /\ authTokens' = w.authTokens
    /\ index' = w.index
    /\ _default_index_buffer' = w.buffer

\* JSON paths under "kitchens": a read of a missing path matches nothing, a
\* write below a missing parent writes nothing.
GroceryOf(w, k) == IF k \in DOMAIN w.kitchens THEN w.kitchens[k].grocery ELSE <<>>
InventoryOf(w, k) == IF k \in DOMAIN w.kitchens THEN w.kitchens[k].inventory ELSE <<>>
BucketsOf(w, k, p) == MapGet(InventoryOf(w, k), p, <<>>)

SetGrocery(w, k, g) ==
    IF k \in DOMAIN w.kitchens
    THEN [w EXCEPT !.kitchens[k].grocery = g] ELSE w
SetInventory(w, k, inv) ==
    IF k \in DOMAIN w.kitchens
    THEN [w EXCEPT !.kitchens[k].inventory = inv] ELSE w

----------------------------------------------------------------------------
(* SearchClient (modules/search.py) *)

DefaultIndex == <<"default">>
GroceryIndex(k) == <<k, "grocery">>
InventoryIndex(k) == <<k, "inventory">>

\* The words of a product name.
Words(name) ==
    IF name = "Milk Bun" THEN {"Milk", "Bun"}
    ELSE IF name = "Oat Milk" THEN {"Oat", "Milk"}
    ELSE {name}

\* A document matches the empty query, and a query that is a word of its name.
Matches(query, name) == query = "" \/ query \in Words(name)

_add_products_to_index(w, index_name, product_names) ==
    IF DOMAIN product_names = {} THEN w
    ELSE LET old == MapGet(w.index, index_name, <<>>)
             new == [x \in (DOMAIN old) \cup (DOMAIN product_names) |->
                        IF x \in DOMAIN product_names
                        THEN product_names[x] ELSE old[x]]
         IN [w EXCEPT !.index = MapPut(w.index, index_name, new)]

index_inventory_products(w, k, product_names) ==
    _add_products_to_index(w, InventoryIndex(k), product_names)

\* Faulty variant of index_grocery_products: no document is added.
index_grocery_products_skipped(w, k, product_names) == w

index_grocery_products(w, k, product_names) ==
    _add_products_to_index(w, GroceryIndex(k), product_names)

_search_index(w, index_name, query) ==
    IF index_name \notin DOMAIN w.index THEN {}
    ELSE {x \in DOMAIN w.index[index_name] : Matches(query, w.index[index_name][x])}

search_default_products(w, query) == _search_index(w, DefaultIndex, query)
search_inventory_products(w, k, query) == _search_index(w, InventoryIndex(k), query)
search_grocery_products(w, k, query) == _search_index(w, GroceryIndex(k), query)

DeleteDocument(w, index_name, product_id) ==
    IF index_name \in DOMAIN w.index
    THEN [w EXCEPT !.index[index_name] = MapDel(@, product_id)]
    ELSE w

delete_inventory_product(w, k, p) == DeleteDocument(w, InventoryIndex(k), p)

\* Faulty variant of delete_grocery_product: the document is left in the index.
delete_grocery_product_skipped(w, k, p) == w

delete_grocery_product(w, k, p) == DeleteDocument(w, GroceryIndex(k), p)

----------------------------------------------------------------------------
(* DatabaseClient: accounts and kitchens (modules/database.py) *)

\* argon2.PasswordHasher().hash: the hash verifies against its password only.
Hash(password) == <<"argon2", password>>

NewUser(name, password) ==
    [name |-> name, auth |-> Hash(password),
     ownedKitchens |-> <<>>, sharedKitchens |-> <<>>]

NewKitchen(kitchen_name) ==
    [name |-> kitchen_name, nonAdmins |-> <<>>, grocery |-> <<>>,
     inventory |-> <<>>, customProducts |-> <<>>]

\* Faulty variant of verify: every password is accepted.
verify_accepts_all(hashed_pw, password) == "True"

\* argon2.PasswordHasher.verify: True for the password that was hashed, the
\* exception VerifyMismatchError for any other.
verify(hashed_pw, password) ==
    IF hashed_pw = Hash(password) THEN "True" ELSE "VerifyMismatchError"

login_is_valid(w, email, password) ==
    IF email \notin DOMAIN w.users THEN Return(w, "False")
    ELSE LET hashed_pw == w.users[email].auth
             verified == verify(hashed_pw, password)
         IN IF verified = "VerifyMismatchError" THEN Return(w, "False")
            ELSE Return(w, verified)

\* auth_token is the draw of _gen_random_id.
generate_auth_token(w, email, auth_token) ==
    Return([w EXCEPT !.authTokens = MapPut(@, auth_token, email)], auth_token)

\* Faulty variant of delete_auth_token: every token is deleted.
delete_auth_token_all(w, auth_token) == [w EXCEPT !.authTokens = <<>>]

\* hdel of a field that is not there deletes nothing.
delete_auth_token(w, auth_token) ==
    [w EXCEPT !.authTokens = MapDel(@, auth_token)]

\* Faulty variant of create_user: an existing account is written over.
create_user_overwrites(w, name, email, password) ==
    Return([w EXCEPT !.users = MapPut(@, email, NewUser(name, password))], "True")

create_user(w, name, email, password) ==
    IF email \in DOMAIN w.users
    THEN Return(w, "False")
    ELSE Return([w EXCEPT !.users = MapPut(@, email, NewUser(name, password))],
                "True")

\* self._rj.get("user:{email}", path) is None for a missing key, and the [0]
\* applied to it raises TypeError.
user_owns_kitchen(w, email, kitchen_id) ==
    IF email \notin DOMAIN w.users THEN Raise(w, "TypeError")
    ELSE Return(w, IF Contains(w.users[email].ownedKitchens, kitchen_id)
                   THEN "True" ELSE "False")

\* Faulty variant of user_has_access_to_kitchen: shared kitchens are not looked at.
user_has_access_owned_only(w, email, kitchen_id) ==
    user_owns_kitchen(w, email, kitchen_id)


user_has_access_to_kitchen(w, email, kitchen_id) ==
    IF email \notin DOMAIN w.users THEN Raise(w, "TypeError")
    ELSE LET shared_kitchens == w.users[email].sharedKitchens
             user_owns_kitchen_ == user_owns_kitchen(w, email, kitchen_id)
         IN IF user_owns_kitchen_.exc # NoExc THEN user_owns_kitchen_
            ELSE Return(w, IF \/ user_owns_kitchen_.ret = "True"
                              \/ Contains(shared_kitchens, kitchen_id)
                           THEN "True" ELSE "False")

\* kitchen_id is the draw of _gen_random_id.  JSON.ARRAPPEND on a missing
\* key is refused by Redis (ResponseError), after the kitchen was written.
create_kitchen(w, email, kitchen_name, kitchen_id) ==
    LET w1 == [w EXCEPT !.kitchens = MapPut(@, kitchen_id, NewKitchen(kitchen_name))]
    IN IF email \notin DOMAIN w1.users THEN Raise(w1, "ResponseError")
       ELSE Return([w1 EXCEPT !.users[email].ownedKitchens = Append(@, kitchen_id)],
                   kitchen_id)

\* Faulty variant of share_kitchen: the access the user already has is not
\* looked at.
share_kitchen_unchecked(w, kitchen_id, email) ==
    IF email \notin DOMAIN w.users THEN Return(w, "False")
    ELSE LET w1 == [w EXCEPT !.users[email].sharedKitchens = Append(@, kitchen_id)]
             w2 == IF kitchen_id \in DOMAIN w1.kitchens
                   THEN [w1 EXCEPT !.kitchens[kitchen_id].nonAdmins =
                                       Append(@, email)]
                   ELSE w1
         IN Return(w2, "True")

share_kitchen(w, kitchen_id, email) ==
    LET access == user_has_access_to_kitchen(w, email, kitchen_id)
    IN IF access.exc # NoExc THEN access
       ELSE IF access.ret = "True" THEN Return(w, "True")
       ELSE IF email \notin DOMAIN w.users THEN Return(w, "False")
       ELSE LET w1 == [w EXCEPT !.users[email].sharedKitchens = Append(@, kitchen_id)]
                w2 == IF kitchen_id \in DOMAIN w1.kitchens
                      THEN [w1 EXCEPT !.kitchens[kitchen_id].nonAdmins =
                                          Append(@, email)]
                      ELSE w1
            IN Return(w2, "True")

\* Faulty variant of leave_kitchen: the kitchen's member list is not updated.
leave_kitchen_user_side_only(w, email, kitchen_id) ==
    IF email \notin DOMAIN w.users THEN Raise(w, "TypeError")
    ELSE IF ~Contains(w.users[email].sharedKitchens, kitchen_id)
         THEN Raise(w, "ValueError")
         ELSE [w EXCEPT !.users[email].sharedKitchens = ListRemove(@, kitchen_id)]

leave_kitchen(w, email, kitchen_id) ==
    IF email \notin DOMAIN w.users THEN Raise(w, "TypeError")
    ELSE LET kitchens_list == w.users[email].sharedKitchens
         IN IF ~Contains(kitchens_list, kitchen_id) THEN Raise(w, "ValueError")
            ELSE LET w1 == [w EXCEPT !.users[email].sharedKitchens =
                                         ListRemove(kitchens_list, kitchen_id)]
                 IN IF kitchen_id \notin DOMAIN w1.kitchens
                    THEN Raise(w1, "IndexError")
                    ELSE LET kitchen_members == w1.kitchens[kitchen_id].nonAdmins
                         IN IF ~Contains(kitchen_members, email)
                            THEN Raise(w1, "ValueError")
                            ELSE [w1 EXCEPT !.kitchens[kitchen_id].nonAdmins =
                                                ListRemove(kitchen_members, email)]

----------------------------------------------------------------------------
(* DatabaseClient: product list management (modules/database.py) *)

_product(w, kitchen_id, product_id) ==
    IF product_id \in DOMAIN w.products
    THEN [exc |-> NoExc, id |-> product_id,
          name |-> w.products[product_id].name,
          category |-> w.products[product_id].category]
    ELSE IF /\ kitchen_id \in DOMAIN w.kitchens
            /\ product_id \in DOMAIN w.kitchens[kitchen_id].customProducts
         THEN [exc |-> NoExc, id |-> product_id,
               name |-> w.kitchens[kitchen_id].customProducts[product_id],
               category |-> "Custom product"]
         ELSE [exc |-> "IndexError", id |-> product_id, name |-> "", category |-> ""]

_inv_product(w, kitchen_id, product_id) ==
    LET raw == BucketsOf(w, kitchen_id, product_id)
        days == {fromtimestamp(ts, w.offset) : ts \in (DOMAIN raw) \ {-1}}
        expiries == [d \in days |->
                        raw[CHOOSE ts \in (DOMAIN raw) \ {-1} :
                                fromtimestamp(ts, w.offset) = d]]
        p == _product(w, kitchen_id, product_id)
    IN [exc |-> p.exc, id |-> p.id, name |-> p.name, category |-> p.category,
        amount |-> SumValues(raw),
        expiries |-> expiries,
        non_expirables |-> MapGet(raw, -1, 0)]

_groc_product(w, kitchen_id, product_id) ==
    LET p == _product(w, kitchen_id, product_id)
    IN [exc |-> p.exc, id |-> p.id, name |-> p.name, category |-> p.category,
        amount |-> MapGet(GroceryOf(w, kitchen_id), product_id, 0)]

\* Faulty variant of _set_inv_product_count: with amount <= 0 the product
\* leaves the search index only when no other bucket holds stock.
_set_inv_product_count_keeps_stocked(w, kitchen_id, product_id, expiry, amount) ==
    LET expiry_timestamp == IF expiry # None THEN mktime(expiry[1], w.offset) ELSE -1
        inv == InventoryOf(w, kitchen_id)
    IN IF amount <= 0
       THEN LET w1 == IF product_id \in DOMAIN inv
                      THEN SetInventory(w, kitchen_id,
                               [inv EXCEPT ![product_id] = MapDel(@, expiry_timestamp)])
                      ELSE w
            IN IF SumValues(BucketsOf(w1, kitchen_id, product_id)) > 0 THEN w1
               ELSE delete_inventory_product(w1, kitchen_id, product_id)
       ELSE LET product == _inv_product(w, kitchen_id, product_id)
            IN IF product.exc # NoExc THEN Raise(w, product.exc)
               ELSE LET w1 == IF product.amount = 0
                              THEN index_inventory_products(
                                       SetInventory(w, kitchen_id,
                                           MapPut(inv, product_id, <<>>)),
                                       kitchen_id, product.id :> product.name)
                              ELSE w
                        inv1 == InventoryOf(w1, kitchen_id)
                    IN IF product.id \in DOMAIN inv1
                       THEN SetInventory(w1, kitchen_id,
                                [inv1 EXCEPT ![product.id] =
                                    MapPut(@, expiry_timestamp, amount)])
                       ELSE w1

_set_inv_product_count(w, kitchen_id, product_id, expiry, amount) ==
    LET expiry_timestamp == IF expiry # None THEN mktime(expiry[1], w.offset) ELSE -1
        inv == InventoryOf(w, kitchen_id)
    IN IF amount <= 0
       THEN LET w1 == IF product_id \in DOMAIN inv
                      THEN SetInventory(w, kitchen_id,
                               [inv EXCEPT ![product_id] = MapDel(@, expiry_timestamp)])
                      ELSE w
            IN delete_inventory_product(w1, kitchen_id, product_id)
       ELSE LET product == _inv_product(w, kitchen_id, product_id)
            IN IF product.exc # NoExc THEN Raise(w, product.exc)
               ELSE LET w1 == IF product.amount = 0
                              THEN index_inventory_products(
                                       SetInventory(w, kitchen_id,
                                           MapPut(inv, product_id, <<>>)),
                                       kitchen_id, product.id :> product.name)
                              ELSE w
                        inv1 == InventoryOf(w1, kitchen_id)
                    IN IF product.id \in DOMAIN inv1
                       THEN SetInventory(w1, kitchen_id,
                                [inv1 EXCEPT ![product.id] =
                                    MapPut(@, expiry_timestamp, amount)])
                       ELSE w1

\* Faulty variant of set_groc_product_count: an amount <= 0 is stored like
\* any other.
set_groc_product_count_stores_any(w, kitchen_id, product_id, amount) ==
    LET product == _groc_product(w, kitchen_id, product_id)
    IN IF product.exc # NoExc THEN Raise(w, product.exc)
       ELSE SetGrocery(w, kitchen_id,
                MapPut(GroceryOf(w, kitchen_id), product.id, amount))

set_groc_product_count(w, kitchen_id, product_id, amount) ==
    IF amount <= 0
    THEN delete_grocery_product(
             SetGrocery(w, kitchen_id, MapDel(GroceryOf(w, kitchen_id), product_id)),
             kitchen_id, product_id)
    ELSE LET product == _groc_product(w, kitchen_id, product_id)
         IN IF product.exc # NoExc THEN Raise(w, product.exc)
            ELSE LET w1 == IF product.amount = 0
                           THEN index_grocery_products(w, kitchen_id,
                                    product.id :> product.name)
                           ELSE w
                 IN SetGrocery(w1, kitchen_id,
                        MapPut(GroceryOf(w1, kitchen_id), product.id, amount))

\* Faulty variant of buy_product: the bucket is overwritten with the bought
\* amount, whatever it held.
buy_product_overwrites(w, kitchen_id, product_id, expiry, amount) ==
    LET expiry_date == IF expiry # <<>> THEN <<date(expiry)>> ELSE None
        groc_product == _groc_product(w, kitchen_id, product_id)
    IN IF groc_product.exc # NoExc THEN Raise(w, groc_product.exc)
       ELSE _set_inv_product_count(
                set_groc_product_count(w, kitchen_id, product_id,
                    groc_product.amount - amount),
                kitchen_id, product_id, expiry_date, amount)

buy_product(w, kitchen_id, product_id, expiry, amount) ==
    LET expiry_date == IF expiry # <<>> THEN <<date(expiry)>> ELSE None
        groc_product == _groc_product(w, kitchen_id, product_id)
    IN IF groc_product.exc # NoExc THEN Raise(w, groc_product.exc)
       ELSE LET w1 == set_groc_product_count(w, kitchen_id, product_id,
                          groc_product.amount - amount)
                inv_product == _inv_product(w1, kitchen_id, product_id)
                inital_inv_amt ==
                    IF expiry_date = None THEN 0
                    ELSE MapGet(inv_product.expiries, expiry_date[1], 0)
            IN IF w1.exc # NoExc THEN w1
               ELSE _set_inv_product_count(w1, kitchen_id, product_id,
                        expiry_date, inital_inv_amt + amount)

\* The loop of use_product over expiry_amounts (a dict, taken in insertion
\* order as a sequence of <<expiry, amount>> pairs); inv_prod was read once,
\* before the loop.
RECURSIVE UseLoop(_, _, _, _, _)
UseLoop(w, kitchen_id, product_id, inv_prod, pairs) ==
    IF pairs = <<>> \/ w.exc # NoExc THEN w
    ELSE LET expiry == Head(pairs)[1]
             used == Head(pairs)[2]
         IN IF expiry # None /\ expiry[1] \notin DOMAIN inv_prod.expiries
            THEN Raise(w, "KeyError")
            ELSE LET initial_amount ==
                         IF expiry # None THEN inv_prod.expiries[expiry[1]]
                         ELSE inv_prod.non_expirables
                 IN UseLoop(
                        _set_inv_product_count(w, kitchen_id, product_id,
                            expiry, initial_amount - used),
                        kitchen_id, product_id, inv_prod, Tail(pairs))

use_product(w, kitchen_id, product_id, expiry_amounts, move_to_grocery) ==
    LET inv_prod == _inv_product(w, kitchen_id, product_id)
    IN IF inv_prod.exc # NoExc THEN Raise(w, inv_prod.exc)
       ELSE LET w1 == UseLoop(w, kitchen_id, product_id, inv_prod, expiry_amounts)
            IN IF w1.exc # NoExc \/ ~move_to_grocery THEN w1
               ELSE LET total_amount_used == SumAmounts(expiry_amounts)
                        groc_prod == _groc_product(w1, kitchen_id, product_id)
                    IN set_groc_product_count(w1, kitchen_id, product_id,
                           groc_prod.amount + total_amount_used)

----------------------------------------------------------------------------
(* DatabaseClient: page model getters (modules/database.py) *)

_user(w, email) ==
    IF email \in DOMAIN w.users
    THEN [exc |-> NoExc, email |-> email, username |-> w.users[email].name]
    ELSE [exc |-> "TypeError", email |-> email, username |-> ""]

_kitchen(w, kitchen_id) ==
    IF kitchen_id \in DOMAIN w.kitchens
    THEN [exc |-> NoExc, id |-> kitchen_id, name |-> w.kitchens[kitchen_id].name]
    ELSE [exc |-> "IndexError", id |-> kitchen_id, name |-> ""]

FirstExc(excs) ==
    IF \E i \in 1..Len(excs) : excs[i] # NoExc
    THEN excs[CHOOSE i \in 1..Len(excs) :
                  excs[i] # NoExc /\ \A j \in 1..(i - 1) : excs[j] = NoExc]
    ELSE NoExc

\* A dict category -> products is the sequence of its items in insertion order.
inventory_page_model(w, email, kitchen_id, search_query) ==
    LET product_ids == Listed(search_inventory_products(w, kitchen_id, search_query))
        ps == [i \in 1..Len(product_ids) |-> _inv_product(w, kitchen_id, product_ids[i])]
        cats == {ps[i].category : i \in 1..Len(ps)}
        InCat(cat) == SelectSeq(ps, LAMBDA x : x.category = cat)
        sorted_cats == Values(SortPairs(
                           [i \in 1..Cardinality(cats) |->
                               <<Rank(Listed(cats)[i]), Listed(cats)[i]>>]))
        user == _user(w, email)
        kitchen == _kitchen(w, kitchen_id)
    IN [exc |-> FirstExc([i \in 1..Len(ps) |-> ps[i].exc] \o <<user.exc, kitchen.exc>>),
        products |->
            [c \in 1..Len(sorted_cats) |->
                [category |-> sorted_cats[c],
                 products |->
                    Values(SortPairs(
                        [i \in 1..Len(InCat(sorted_cats[c])) |->
                            <<Rank(InCat(sorted_cats[c])[i].name),
                              InCat(sorted_cats[c])[i]>>]))]],
        user |-> user, kitchen |-> kitchen]

sorted_inventory_page_model(w, email, kitchen_id, search_query) ==
    LET product_ids == Listed(search_inventory_products(w, kitchen_id, search_query))
        ps == [i \in 1..Len(product_ids) |-> _inv_product(w, kitchen_id, product_ids[i])]
        expirables == SelectSeq(ps, LAMBDA x : DOMAIN x.expiries # {})
        non_expirables == SelectSeq(ps, LAMBDA x : DOMAIN x.expiries = {})
        user == _user(w, email)
        kitchen == _kitchen(w, kitchen_id)
    IN [exc |-> FirstExc([i \in 1..Len(ps) |-> ps[i].exc] \o <<user.exc, kitchen.exc>>),
        products |->
            Values(SortPairs([i \in 1..Len(expirables) |->
                       <<Min(DOMAIN expirables[i].expiries), expirables[i]>>]))
            \o Values(SortPairs([i \in 1..Len(non_expirables) |->
                       <<Rank(non_expirables[i].name), non_expirables[i]>>])),
        user |-> user, kitchen |-> kitchen]

\* Faulty variant of sorted_product_categories: "Unowned products" takes its
\* alphabetical place.
sorted_product_categories_all(keys) ==
    Values(SortPairs([i \in 1..Cardinality(keys) |->
                         <<Rank(Listed(keys)[i]), Listed(keys)[i]>>]))

\* The categories of the grocery page in the order of their iteration.
sorted_product_categories(keys) ==
    Values(SortPairs(
        [i \in 1..Cardinality(keys \ {"Unowned products"}) |->
            <<Rank(Listed(keys \ {"Unowned products"})[i]),
              Listed(keys \ {"Unowned products"})[i]>>]))
    \o (IF "Unowned products" \in keys THEN <<"Unowned products">> ELSE <<>>)

grocery_page_model(w, email, kitchen_id, search_query) ==
    LET grocery_ids == Listed(search_grocery_products(w, kitchen_id, search_query))
        default_products ==
            IF search_query # "" THEN search_default_products(w, search_query) ELSE {}
        product_ids ==
            grocery_ids \o Listed(default_products \ {grocery_ids[i] : i \in 1..Len(grocery_ids)})
        Fetched(i) == _groc_product(w, kitchen_id, product_ids[i])
        ps == [i \in 1..Len(product_ids) |->
                  IF Fetched(i).amount = 0
                  THEN [Fetched(i) EXCEPT !.category = "Unowned products"]
                  ELSE Fetched(i)]
        cats == {ps[i].category : i \in 1..Len(ps)}
        InCat(cat) == SelectSeq(ps, LAMBDA x : x.category = cat)
        sorted_cats == sorted_product_categories(cats)
        user == _user(w, email)
        kitchen == _kitchen(w, kitchen_id)
    IN [exc |-> FirstExc([i \in 1..Len(ps) |-> ps[i].exc] \o <<user.exc, kitchen.exc>>),
        products |->
            [c \in 1..Len(sorted_cats) |->
                [category |-> sorted_cats[c],
                 products |->
                    Values(SortPairs(
                        [i \in 1..Len(InCat(sorted_cats[c])) |->
                            <<Rank(InCat(sorted_cats[c])[i].name),
                              InCat(sorted_cats[c])[i]>>]))]],
        user |-> user, kitchen |-> kitchen]

----------------------------------------------------------------------------
(* WebSocketManager (sharing.py).  A topic f"{kitchen_id}.grocery" is the
   tuple of its parts.  The UI updater that subscribe makes for a session and
   a topic is the pair <<session, topic>>; the unsubscribe closure it
   registers is the record of what the closure holds: the session, the keys
   of topic_ui_updaters and whether receiving_renderer is not None.  A
   connection is the sequence of the strings sent on it.  An operation gives
   the manager it leaves and the exception that left it. *)

Sessions == {"s1", "s2"}
Topics == {<<"k1", "grocery">>, <<"k2", "grocery">>}
Messages == {"img1", "img2"}

WsInit ==
    [_topic_based_updaters |-> <<>>, _message_based_updaters |-> <<>>,
     _unsubscribers |-> <<>>, _connections |-> <<>>]

\* Networker.__init__: empty queues and no session token.
NetworkerInit ==
    [_queued_reqs |-> <<>>, _queued_msgs |-> <<>>, _ws_session_token |-> <<>>,
     running |-> TRUE, requesting |-> <<>>, ws |-> "waiting",
     scheduled |-> 0, log |-> <<>>]

\* main.py has not been started, and no service process exists.
NotStarted ==
    [pc |-> "main", redis |-> "none", meilisearch |-> "none",
     issued |-> {}, runs |-> 1, left |-> {},
     seen |-> [redis |-> "none", meilisearch |-> "none"]]

\* The scraper is not running.
NoScraper == [pc |-> "idle"]

\* No request of the session is being handled.
NoRequest == [pc |-> "idle"]

\* A browser session that has no page subscribed and no socket open.
NoClient == [asked |-> {}, receiving |-> FALSE, open |-> FALSE]

WsDone(m) == [m |-> m, exc |-> NoExc]
WsRaise(m, e) == [m |-> m, exc |-> e]

\* The rendered form of a message or of a topic's fragment.
Rendered(x) == <<"html", x>>

\* for topic in topic_ui_updaters: self._topic_based_updaters[topic].remove(..)
RECURSIVE RemoveUpdaters(_, _, _)
RemoveUpdaters(m, session_token, topics) ==
    IF topics = <<>> THEN WsDone(m)
    ELSE LET topic == Head(topics)
         IN IF \/ topic \notin DOMAIN m._topic_based_updaters
               \/ <<session_token, topic>> \notin m._topic_based_updaters[topic]
            THEN WsRaise(m, "KeyError")
            ELSE RemoveUpdaters(
                     [m EXCEPT !._topic_based_updaters[topic] =
                                   @ \ {<<session_token, topic>>}],
                     session_token, Tail(topics))

\* The closure unsubscribe of subscribe; dict.pop without a default raises
\* KeyError on a missing key.
unsubscribe(m, u) ==
    LET removed == RemoveUpdaters(m, u.session_token, u.topics)
    IN IF removed.exc # NoExc THEN removed
       ELSE IF ~u.receiving THEN removed
       ELSE IF u.session_token \notin DOMAIN removed.m._message_based_updaters
       THEN WsRaise(removed.m, "KeyError")
       ELSE WsDone([removed.m EXCEPT !._message_based_updaters =
                                         MapDel(@, u.session_token)])

\* for topic in topic_renderers: self._topic_based_updaters[topic].add(..)
RECURSIVE AddUpdaters(_, _, _)
AddUpdaters(m, session_token, topics) ==
    IF topics = <<>> THEN WsDone(m)
    ELSE LET topic == Head(topics)
         IN IF topic \notin DOMAIN m._topic_based_updaters
            THEN WsRaise(m, "KeyError")
            ELSE AddUpdaters(
                     [m EXCEPT !._topic_based_updaters[topic] =
                                   @ \cup {<<session_token, topic>>}],
                     session_token, Tail(topics))

\* topic_renderers is the sequence of the dict's keys; receiving_renderer is
\* None or <<the renderer>>.  update_message_ui is defined and stored nowhere.
subscribe(m, session_token, topic_renderers, receiving_renderer) ==
    LET had == session_token \in DOMAIN m._unsubscribers
        popped == IF had
                  THEN [m EXCEPT !._unsubscribers = MapDel(@, session_token)]
                  ELSE m
        unsubscribed == IF had
                        THEN unsubscribe(popped, m._unsubscribers[session_token])
                        ELSE WsDone(m)
    IN IF unsubscribed.exc # NoExc THEN unsubscribed
       ELSE LET added == AddUpdaters(unsubscribed.m, session_token, topic_renderers)
            IN IF added.exc # NoExc THEN added
               ELSE WsDone([added.m EXCEPT !._unsubscribers =
                               MapPut(@, session_token,
                                   [session_token |-> session_token,
                                    topics |-> topic_renderers,
                                    receiving |-> receiving_renderer # None])])

\* Every topic is looked up with []; update_ui() makes a coroutine that is
\* never awaited, so its body (the render and the send_str) does not run.
publish_update(m, topics) ==
    IF \E i \in 1..Len(topics) : topics[i] \notin DOMAIN m._topic_based_updaters
    THEN "KeyError" ELSE NoExc

\* handle_connection up to its message loop.
handle_connection_open(m, session_token) ==
    WsDone([m EXCEPT !._connections = MapPut(@, session_token, <<>>)])

\* One turn of the message loop: the updater found is called with the
\* message, and the coroutine it gives is never awaited.
handle_connection_message(m, session_token, data) ==
    WsDone(m)

\* handle_connection after its message loop.
handle_connection_close(m, session_token) ==
    LET had == session_token \in DOMAIN m._unsubscribers
        popped == IF had
                  THEN [m EXCEPT !._unsubscribers = MapDel(@, session_token)]
                  ELSE m
        unsubscribed == IF had
                        THEN unsubscribe(popped, m._unsubscribers[session_token])
                        ELSE WsDone(m)
    IN IF unsubscribed.exc # NoExc THEN unsubscribed
       ELSE IF session_token \notin DOMAIN unsubscribed.m._connections
       THEN WsRaise(unsubscribed.m, "KeyError")
       ELSE WsDone([unsubscribed.m EXCEPT !._connections = MapDel(@, session_token)])

----------------------------------------------------------------------------
(* The state after construction, sign-up and create_kitchen: one account   *)
(* that owns one kitchen with empty lists, the catalog already scraped.    *)

NoCall == [op |-> "none", exc |-> NoExc]

InitEmpty ==
    /\ users = <<>>
    /\ kitchens = <<>>
    /\ products = Catalog
    /\ authTokens = <<>>
    /\ index = (DefaultIndex :> [p \in DOMAIN Catalog |-> Catalog[p].name])
    /\ utcOffset \in UtcOffsets
    /\ ws_manager = WsInit
    /\ clients = [s \in Sessions |-> NoClient]
    /\ inflight = [s \in Sessions |-> NoRequest]
    /\ _default_index_buffer = <<>>
    /\ scraper = NoScraper
    /\ networker = NetworkerInit
    /\ orchestrator = NotStarted
    /\ last = NoCall

Init ==
    /\ users = ("alice" :> [NewUser("Alice", "pw1") EXCEPT !.ownedKitchens = <<"k1">>])
    /\ kitchens = ("k1" :> NewKitchen("Home"))
    /\ products = Catalog
    /\ authTokens = <<>>
    /\ index = (DefaultIndex :> [p \in DOMAIN Catalog |-> Catalog[p].name])
    /\ utcOffset = 28800
    /\ ws_manager = WsInit
    /\ clients = [s \in Sessions |-> NoClient]
    /\ inflight = [s \in Sessions |-> NoRequest]
    /\ _default_index_buffer = <<>>
    /\ scraper = NoScraper
    /\ networker = NetworkerInit
    /\ orchestrator = NotStarted
    /\ last = NoCall

----------------------------------------------------------------------------
(* Calls of the list operations, as the route handlers make them *)

StockProducts == {"p1", UnknownProduct}
SetAmounts == (-1)..MaxUnits
BuyAmounts == (-1)..MaxUnits
UseAmounts == 1..MaxUnits
Expiries == {None} \cup {<<d>> : d \in Dates}

\* The expiry_amounts dicts of one or two entries (a dict has distinct keys)
\* that use at most MaxUnits units in all.
ExpiryAmounts ==
    {<<<<e, a>>>> : e \in Expiries, a \in UseAmounts}
    \cup {<<<<e1, a1>>, <<e2, a2>>>> :
            <<e1, e2, a1, a2>> \in
                {t \in Expiries \X Expiries \X UseAmounts \X UseAmounts :
                    t[1] # t[2] /\ t[3] + t[4] <= MaxUnits}}

\* What a call found: the product's grocery amount, its inventory buckets by
\* expiry date, and whether its two index documents were there.
Buckets(k, p) ==
    LET raw == BucketsOf(World, k, p)
    IN [e \in {IF ts = -1 THEN None ELSE <<fromtimestamp(ts, utcOffset)>> :
                  ts \in DOMAIN raw} |->
           raw[IF e = None THEN -1 ELSE mktime(e[1], utcOffset)]]

Found(k, p) ==
    [grocery |-> MapGet(GroceryOf(World, k), p, 0),
     buckets |-> Buckets(k, p),
     total |-> SumValues(BucketsOf(World, k, p))]

Units(w, k, p) ==
    MapGet(GroceryOf(w, k), p, 0) + SumValues(BucketsOf(w, k, p))

SetGrocProductCount(k, p, amount) ==
    \E w \in {set_groc_product_count(World, k, p, amount)} :
       /\ Units(w, k, p) <= MaxUnits
       /\ Commit(w)
       /\ last' = [op |-> "set_groc_product_count", exc |-> w.exc,
                   kitchen |-> k, product |-> p, amount |-> amount,
                   found |-> Found(k, p)]
       /\ UNCHANGED <<utcOffset, ws_manager, clients, inflight, scraper,
                   networker, orchestrator>>

BuyProduct(k, p, expiry, amount) ==
    \E w \in {buy_product(World, k, p, expiry, amount)} :
       /\ Units(w, k, p) <= MaxUnits
       /\ Commit(w)
       /\ last' = [op |-> "buy_product", exc |-> w.exc,
                   kitchen |-> k, product |-> p, amount |-> amount,
                   expiry |-> IF expiry = <<>> THEN None ELSE <<date(expiry)>>,
                   found |-> Found(k, p)]
       /\ UNCHANGED <<utcOffset, ws_manager, clients, inflight, scraper,
                   networker, orchestrator>>

UseProduct(k, p, expiry_amounts, move_to_grocery) ==
    \E w \in {use_product(World, k, p, expiry_amounts, move_to_grocery)} :
       /\ Units(w, k, p) <= MaxUnits
       /\ Commit(w)
       /\ last' = [op |-> "use_product", exc |-> w.exc,
                   kitchen |-> k, product |-> p,
                   expiry_amounts |-> expiry_amounts,
                   move_to_grocery |-> move_to_grocery,
                   found |-> Found(k, p)]
       /\ UNCHANGED <<utcOffset, ws_manager, clients, inflight, scraper,
                   networker, orchestrator>>

SetGroc == \E k \in DOMAIN kitchens, p \in StockProducts, a \in SetAmounts :
               SetGrocProductCount(k, p, a)
Buy == \E k \in DOMAIN kitchens, p \in StockProducts,
          e \in ExpiryTuples \cup {<<>>}, a \in BuyAmounts :
               BuyProduct(k, p, e, a)
Use == \E k \in DOMAIN kitchens, p \in StockProducts \ {UnknownProduct},
          ea \in ExpiryAmounts, m \in BOOLEAN :
               UseProduct(k, p, ea, m)

Next == SetGroc \/ Buy \/ Use

Spec == Init /\ [][Next]_vars

----------------------------------------------------------------------------
(* Calls of the account and kitchen operations *)

UserNames == {"Alice"}

CreateUser(name, email, password) ==
    \E w \in {create_user(World, name, email, password)} :
       /\ Commit(w)
       /\ last' = [op |-> "create_user", exc |-> w.exc, ret |-> w.ret,
                   email |-> email, existed |-> email \in DOMAIN users]
       /\ UNCHANGED <<utcOffset, ws_manager, clients, inflight, scraper,
                   networker, orchestrator>>

\* The id drawn by _gen_random_id is one no kitchen has yet.
CreateKitchen(email, kitchen_name) ==
    \E kitchen_id \in KitchenIds \ DOMAIN kitchens :
    \E w \in {create_kitchen(World, email, kitchen_name, kitchen_id)} :
       /\ Commit(w)
       /\ last' = [op |-> "create_kitchen", exc |-> w.exc, ret |-> w.ret,
                   email |-> email]
       /\ UNCHANGED <<utcOffset, ws_manager, clients, inflight, scraper,
                   networker, orchestrator>>

\* kitchen_share (server.py) calls share_kitchen for a kitchen the requester
\* has access to, with any e-mail address.
ShareKitchen(requester, kitchen_id, email) ==
    /\ user_has_access_to_kitchen(World, requester, kitchen_id).ret = "True"
    /\ \E w \in {share_kitchen(World, kitchen_id, email)} :
          /\ Commit(w)
          /\ last' = [op |-> "share_kitchen", exc |-> w.exc, ret |-> w.ret,
                      kitchen |-> kitchen_id, email |-> email,
                      before |-> [users |-> users, kitchens |-> kitchens]]
          /\ UNCHANGED <<utcOffset, ws_manager, clients, inflight, scraper,
                   networker, orchestrator>>

\* kitchen_leave (server.py) calls leave_kitchen for the signed-in user and
\* the kitchen id of the URL.
LeaveKitchen(email, kitchen_id) ==
    \E w \in {leave_kitchen(World, email, kitchen_id)} :
       /\ Commit(w)
       /\ last' = [op |-> "leave_kitchen", exc |-> w.exc, ret |-> w.ret,
                   kitchen |-> kitchen_id, email |-> email,
                   before |-> [users |-> users, kitchens |-> kitchens]]
       /\ UNCHANGED <<utcOffset, ws_manager, clients, inflight, scraper,
                   networker, orchestrator>>

SignUp == \E name \in UserNames, email \in Emails : CreateUser(name, email, "pw1")
NewKitchenFor == \E email \in DOMAIN users, kitchen_name \in KitchenNames :
                    CreateKitchen(email, kitchen_name)
Share == \E requester \in DOMAIN users, k \in KitchenIds, email \in Emails :
            ShareKitchen(requester, k, email)
Leave == \E email \in DOMAIN users, k \in KitchenIds : LeaveKitchen(email, k)

NextShare == SignUp \/ NewKitchenFor \/ Share \/ Leave

InitShare == InitEmpty /\ utcOffset = 0

SpecShare == InitShare /\ [][NextShare]_vars

----------------------------------------------------------------------------
(* The end-to-end scenario: from an empty store, sign up, create a kitchen, *)
(* put n units of a catalog product on the grocery list, buy the n units    *)
(* with an expiry date.                                                     *)

NothingListed(k) ==
    kitchens[k].grocery = <<>> /\ kitchens[k].inventory = <<>>

E2ESignUp ==
    /\ users = <<>>
    /\ \E name \in UserNames, email \in Emails, password \in Passwords :
          CreateUser(name, email, password)

E2ECreateKitchen ==
    /\ users # <<>> /\ kitchens = <<>>
    /\ \E email \in DOMAIN users, kitchen_name \in KitchenNames :
          CreateKitchen(email, kitchen_name)

E2ESetGrocery ==
    \E k \in DOMAIN kitchens :
       /\ NothingListed(k)
       /\ \E p \in DOMAIN Catalog, n \in 1..MaxUnits : SetGrocProductCount(k, p, n)

E2EBuy ==
    \E k \in DOMAIN kitchens :
       /\ kitchens[k].inventory = <<>>
       /\ \E p \in DOMAIN kitchens[k].grocery, e \in ExpiryTuples :
             BuyProduct(k, p, e, kitchens[k].grocery[p])

NextE2E == E2ESignUp \/ E2ECreateKitchen \/ E2ESetGrocery \/ E2EBuy

SpecE2E == InitEmpty /\ [][NextE2E]_vars

----------------------------------------------------------------------------
(* Properties of the list operations (specification Spec) *)

InvProductNow(k, p) == _inv_product(World, k, p)
GroceryNow(k, p) == MapGet(GroceryOf(World, k), p, 0)

\* C1: after set_groc_product_count(kitchen, product, amount) with
\* amount <= 0 the kitchen's grocery map has no entry for the product and no
\* search_grocery_products query for that kitchen returns its id.
C1_ZeroRemovesAndDeindexes ==
    (last.op = "set_groc_product_count" /\ last.amount <= 0) =>
        /\ last.product \notin DOMAIN kitchens[last.kitchen].grocery
        /\ \A q \in Queries :
              last.product \notin search_grocery_products(World, last.kitchen, q)

\* The entry existed with a positive amount (so it was indexed) and was set to <= 0.
C1_Witness ==
    /\ last.op = "set_groc_product_count"
    /\ last.amount <= 0
    /\ last.found.grocery > 0

\* C2: buy_product with a dated expiry D and 0 < a <= g (g the product's
\* grocery amount) leaves the grocery amount at g - a, with the entry removed
\* when that is 0, and raises the inventory amount at D and the total
\* inventory by exactly a.
C2_BuyMovesStock ==
    (/\ last.op = "buy_product"
     /\ last.product \in DOMAIN products
     /\ last.expiry # None
     /\ last.amount > 0
     /\ last.amount <= last.found.grocery) =>
        LET now == InvProductNow(last.kitchen, last.product)
            g == last.found.grocery - last.amount
        IN /\ last.exc = NoExc
           /\ GroceryNow(last.kitchen, last.product) = g
           /\ (g = 0) = (last.product \notin DOMAIN kitchens[last.kitchen].grocery)
           /\ MapGet(now.expiries, last.expiry[1], 0)
                = MapGet(last.found.buckets, last.expiry, 0) + last.amount
           /\ now.amount = last.found.total + last.amount

\* A buy into a dated bucket that already held stock, with some grocery left over.
C2_Witness ==
    /\ last.op = "buy_product"
    /\ last.product \in DOMAIN products
    /\ last.expiry # None
    /\ last.amount > 0
    /\ last.amount < last.found.grocery
    /\ MapGet(last.found.buckets, last.expiry, 0) > 0

\* C3: buy_product adds the bought amount to the current amount of the given
\* expiry bucket for every expiry value, the absent expiry (the non-expiring
\* bucket) included.
C3_BuyAddsToEveryBucket ==
    (/\ last.op = "buy_product"
     /\ last.product \in DOMAIN products
     /\ last.amount > 0) =>
        LET now == InvProductNow(last.kitchen, last.product)
            amt == IF last.expiry = None THEN now.non_expirables
                   ELSE MapGet(now.expiries, last.expiry[1], 0)
        IN amt = MapGet(last.found.buckets, last.expiry, 0) + last.amount

\* C4: use_product with move_to_grocery = true and an expiry_amounts map that
\* uses up exactly the full amount of each listed bucket removes every listed
\* bucket and raises the grocery amount by the sum of the used amounts, so
\* inventory total + grocery amount is conserved.
UsesUpListedBuckets(found, expiry_amounts) ==
    \A i \in 1..Len(expiry_amounts) :
        /\ expiry_amounts[i][1] \in DOMAIN found.buckets
        /\ found.buckets[expiry_amounts[i][1]] = expiry_amounts[i][2]

C4_UseAllMovesToGrocery ==
    (/\ last.op = "use_product"
     /\ last.move_to_grocery
     /\ UsesUpListedBuckets(last.found, last.expiry_amounts)) =>
        LET now == InvProductNow(last.kitchen, last.product)
        IN /\ last.exc = NoExc
           /\ \A i \in 1..Len(last.expiry_amounts) :
                 LET e == last.expiry_amounts[i][1]
                 IN /\ e \notin DOMAIN Buckets(last.kitchen, last.product)
                    /\ e # None => e[1] \notin DOMAIN now.expiries
                    /\ e = None => now.non_expirables = 0
           /\ GroceryNow(last.kitchen, last.product)
                = last.found.grocery + SumAmounts(last.expiry_amounts)
           /\ now.amount + GroceryNow(last.kitchen, last.product)
                = last.found.total + last.found.grocery

\* Two dated buckets used up in one call, with no grocery entry before it.
C4_Witness ==
    /\ last.op = "use_product"
    /\ last.move_to_grocery
    /\ Len(last.expiry_amounts) = 2
    /\ \A i \in 1..2 : last.expiry_amounts[i][1] # None
    /\ UsesUpListedBuckets(last.found, last.expiry_amounts)
    /\ last.found.grocery = 0
    /\ last.exc = NoExc

----------------------------------------------------------------------------
(* Properties of the end-to-end scenario (specification SpecE2E) *)

\* The entries a page lists for a product: in the category-grouped pages
\* (inventory_page_model, grocery_page_model) and in the expiry-sorted page.
GroupedEntries(page, p) ==
    {page.products[c].products[i] :
        <<c, i>> \in {t \in (1..Len(page.products)) \X (1..Cardinality(DOMAIN Catalog)) :
                        /\ t[2] <= Len(page.products[t[1]].products)
                        /\ page.products[t[1]].products[t[2]].id = p}}
SortedEntries(page, p) ==
    {page.products[i] : i \in {j \in 1..Len(page.products) : page.products[j].id = p}}

ShowsBought(entries, amount, day) ==
    /\ Cardinality(entries) = 1
    /\ \A x \in entries :
          /\ x.amount = amount
          /\ DOMAIN x.expiries # {}
          /\ Min(DOMAIN x.expiries) = day

\* C5: from an empty store, after sign-up, create_kitchen, setting the
\* grocery amount of a catalog product to n and buying n units with an expiry
\* date, inventory_page_model and sorted_inventory_page_model list the product
\* with total amount n and that date as its earliest expiry, and
\* grocery_page_model with an empty query does not list the product.
C5_BoughtProductShownInInventory ==
    last.op = "buy_product" =>
        \A email \in DOMAIN users :
            LET k == last.kitchen
                p == last.product
                inv == inventory_page_model(World, email, k, "")
                sorted == sorted_inventory_page_model(World, email, k, "")
                groc == grocery_page_model(World, email, k, "")
            IN /\ inv.exc = NoExc /\ sorted.exc = NoExc /\ groc.exc = NoExc
               /\ ShowsBought(GroupedEntries(inv, p), last.amount, last.expiry[1])
               /\ ShowsBought(SortedEntries(sorted, p), last.amount, last.expiry[1])
               /\ GroupedEntries(groc, p) = {}

\* The scenario: grocery amount 2, 2 units bought, expiry 2025-06-01.
C5_Witness ==
    /\ last.op = "buy_product"
    /\ last.amount = 2
    /\ last.found.grocery = 2
    /\ last.expiry = <<date(<<2025, 6, 1>>)>>
    /\ \E email \in DOMAIN users :
          ShowsBought(SortedEntries(
              sorted_inventory_page_model(World, email, last.kitchen, ""),
              last.product), 2, date(<<2025, 6, 1>>))

----------------------------------------------------------------------------
(* Properties of sharing (specification SpecShare) *)

NoDuplicates(list) == \A i, j \in 1..Len(list) : list[i] = list[j] => i = j

HadAccess(us, email, k) ==
    /\ email \in DOMAIN us
    /\ \/ Contains(us[email].ownedKitchens, k)
       \/ Contains(us[email].sharedKitchens, k)

\* C6: share_kitchen(kitchen, email) for an email that has no account
\* returns false and changes nothing.
C6_ShareToUnknownEmailReturnsFalse ==
    (last.op = "share_kitchen" /\ last.email \notin DOMAIN last.before.users) =>
        /\ last.exc = NoExc
        /\ last.ret = "False"
        /\ users = last.before.users
        /\ kitchens = last.before.kitchens

\* What the code does for C6: nothing is changed (but no value is returned).
C6_ShareToUnknownEmailChangesNothing ==
    (last.op = "share_kitchen" /\ last.email \notin DOMAIN last.before.users) =>
        /\ users = last.before.users
        /\ kitchens = last.before.kitchens

\* C7: for an existing account, the first share to a user without access
\* returns true and appends exactly one entry to the kitchen's non-admin
\* list and one to the user's shared-kitchen list; a share to a user who has
\* access already (a member or the owner) returns true and changes neither
\* list; no list ever holds a duplicate.
C7_ShareIsIdempotent ==
    /\ \A k \in DOMAIN kitchens : NoDuplicates(kitchens[k].nonAdmins)
    /\ \A e \in DOMAIN users : NoDuplicates(users[e].sharedKitchens)
    /\ (last.op = "share_kitchen" /\ last.email \in DOMAIN last.before.users) =>
          LET b == last.before
              e == last.email
              k == last.kitchen
          IN /\ last.exc = NoExc
             /\ last.ret = "True"
             /\ IF HadAccess(b.users, e, k)
                THEN users = b.users /\ kitchens = b.kitchens
                ELSE /\ users = [b.users EXCEPT ![e].sharedKitchens = Append(@, k)]
                     /\ kitchens = [b.kitchens EXCEPT ![k].nonAdmins = Append(@, e)]

\* A repeated share: the user was a member already, through an earlier share.
C7_Witness ==
    /\ last.op = "share_kitchen"
    /\ last.email \in DOMAIN last.before.users
    /\ Contains(last.before.users[last.email].sharedKitchens, last.kitchen)
    /\ last.ret = "True"

----------------------------------------------------------------------------
(* The route handlers of server.py.  A request is its auth_token cookie
   (None when absent), the parts of its URL and its parsed form fields; a
   response is its status and its Location / HX-Location header, a path
   written as the tuple of its segments.  An exception that leaves a handler
   is answered by aiohttp with status 500; what the handler wrote before it
   stays written. *)

HttpMaxUnits == 2
Cookies == {None, <<"t1">>, <<"t2">>, <<"stale">>}

get_auth_token_owner(w, auth_token) ==
    IF auth_token \in DOMAIN w.authTokens THEN <<w.authTokens[auth_token]>> ELSE None

extract_client_email(w, cookie) ==
    IF cookie # None THEN get_auth_token_owner(w, cookie[1]) ELSE None

Response(w, status, location) == [w |-> w, status |-> status, location |-> location]

inventory_product_page_model(w, email, kitchen_id, product_id) ==
    [exc |-> FirstExc(<<_user(w, email).exc, _kitchen(w, kitchen_id).exc,
                        _inv_product(w, kitchen_id, product_id).exc>>)]

server_index(w, cookie) ==
    IF extract_client_email(w, cookie) = None
    THEN Response(w, 302, <<"login">>)
    ELSE Response(w, 302, <<"kitchens">>)

server_create_kitchen(w, cookie, kitchen_name, kitchen_id) ==
    LET email == extract_client_email(w, cookie)
    IN IF email = None THEN Response(w, 401, <<>>)
       ELSE LET w1 == create_kitchen(w, email[1], kitchen_name, kitchen_id)
            IN IF w1.exc # NoExc THEN Response(w1, 500, <<>>)
               ELSE Response(w1, 200, <<"kitchens", kitchen_id, "inventory">>)

kitchen_share(w, cookie, kitchen_id, email_other_user) ==
    LET email_owner == extract_client_email(w, cookie)
    IN IF email_owner = None THEN Response(w, 401, <<>>)
       ELSE LET access == user_has_access_to_kitchen(w, email_owner[1], kitchen_id)
            IN IF access.exc # NoExc THEN Response(w, 500, <<>>)
               ELSE IF access.ret # "True" THEN Response(w, 403, <<>>)
               ELSE LET w1 == share_kitchen(w, kitchen_id, email_other_user)
                    IN IF w1.exc # NoExc THEN Response(w1, 500, <<>>)
                       ELSE Response(w1, 200, <<>>)

kitchen_leave(w, cookie, kitchen_id) ==
    LET email == extract_client_email(w, cookie)
    IN IF email = None THEN Response(w, 401, <<>>)
       ELSE LET w1 == leave_kitchen(w, email[1], kitchen_id)
            IN IF w1.exc # NoExc THEN Response(w1, 500, <<>>)
               ELSE Response(w1, 200, <<"kitchens">>)

kitchen_index(w, cookie, kitchen_id) ==
    LET email == extract_client_email(w, cookie)
    IN IF email = None THEN Response(w, 401, <<>>)
       ELSE LET access == user_has_access_to_kitchen(w, email[1], kitchen_id)
            IN IF access.exc # NoExc THEN Response(w, 500, <<>>)
               ELSE IF access.ret # "True" THEN Response(w, 403, <<>>)
               ELSE Response(w, 302, <<"kitchens", kitchen_id, "inventory">>)

\* The page rendered (for an admin or not) is not modelled, its status is.
kitchen_settings(w, cookie, kitchen_id) ==
    LET email == extract_client_email(w, cookie)
    IN IF email = None THEN Response(w, 302, <<"login">>)
       ELSE LET access == user_has_access_to_kitchen(w, email[1], kitchen_id)
            IN IF access.exc # NoExc THEN Response(w, 500, <<>>)
               ELSE IF access.ret # "True" THEN Response(w, 403, <<>>)
               ELSE Response(w, 200, <<>>)

set_product(w, cookie, kitchen_id, product_id, amount) ==
    LET email == extract_client_email(w, cookie)
    IN IF email = None THEN Response(w, 401, <<>>)
       ELSE LET w1 == set_groc_product_count(w, kitchen_id, product_id, amount)
            IN IF w1.exc # NoExc THEN Response(w1, 500, <<>>)
               ELSE IF publish_update(ws_manager, <<<<kitchen_id, "grocery">>,
                                        <<kitchen_id, "grocery", product_id>>>>) # NoExc
               THEN Response(w1, 500, <<>>)
               ELSE Response(w1, 200, <<>>)

\* The handler never reads the cookie.
buy_grocery_product(w, cookie, kitchen_id, product_id, expiry, amount) ==
    LET w1 == buy_product(w, kitchen_id, product_id, expiry, amount)
    IN IF w1.exc # NoExc THEN Response(w1, 500, <<>>)
       ELSE IF publish_update(ws_manager, <<<<kitchen_id, "grocery">>,
                                <<kitchen_id, "grocery", product_id>>,
                                <<kitchen_id, "inventory">>,
                                <<kitchen_id, "inventory", product_id>>>>) # NoExc
       THEN Response(w1, 500, <<>>)
       ELSE Response(w1, 200, <<"kitchens", kitchen_id, "grocery">>)

\* The topics of the two publish_update calls of use_inventory_product.
InventoryTopics(kitchen_id, product_id) ==
    <<<<kitchen_id, "inventory">>, <<kitchen_id, "inventory", product_id>>>>
GroceryTopics(kitchen_id, product_id) ==
    <<<<kitchen_id, "grocery">>, <<kitchen_id, "grocery", product_id>>>>

\* A response, with the topic lists of the publish_update calls made on the
\* way to it.
Published(r, calls) == r @@ [published |-> calls]

\* Faulty variant of use_inventory_product: a "move-to-grocery" in the query
\* counts as "true" whatever its value.
use_inventory_product_flag_is_true(w, cookie, kitchen_id, product_id, move_to_grocery, expiry_amounts) ==
    LET email == extract_client_email(w, cookie)
        inv_topics == InventoryTopics(kitchen_id, product_id)
        groc_topics == GroceryTopics(kitchen_id, product_id)
    IN IF email = None THEN Published(Response(w, 401, <<>>), <<>>)
       ELSE IF inventory_product_page_model(w, email[1], kitchen_id, product_id).exc # NoExc
       THEN Published(Response(w, 500, <<>>), <<>>)
       ELSE IF move_to_grocery = None THEN Published(Response(w, 200, <<>>), <<>>)
       ELSE LET w1 == use_product(w, kitchen_id, product_id, expiry_amounts, TRUE)
            IN IF w1.exc # NoExc THEN Published(Response(w1, 500, <<>>), <<>>)
               ELSE IF publish_update(ws_manager, inv_topics) # NoExc
               THEN Published(Response(w1, 500, <<>>), <<inv_topics>>)
               ELSE IF publish_update(ws_manager, groc_topics) # NoExc
               THEN Published(Response(w1, 500, <<>>), <<inv_topics, groc_topics>>)
               ELSE Published(Response(w1, 200, <<"kitchens", kitchen_id, "inventory">>),
                              <<inv_topics, groc_topics>>)

\* move_to_grocery is None when the query has no "move-to-grocery", else
\* <<whether it is "true">>.
use_inventory_product(w, cookie, kitchen_id, product_id, move_to_grocery, expiry_amounts) ==
    LET email == extract_client_email(w, cookie)
        inv_topics == InventoryTopics(kitchen_id, product_id)
        groc_topics == GroceryTopics(kitchen_id, product_id)
    IN IF email = None THEN Published(Response(w, 401, <<>>), <<>>)
       ELSE IF inventory_product_page_model(w, email[1], kitchen_id, product_id).exc # NoExc
       THEN Published(Response(w, 500, <<>>), <<>>)
       ELSE IF move_to_grocery = None THEN Published(Response(w, 200, <<>>), <<>>)
       ELSE LET w1 == use_product(w, kitchen_id, product_id, expiry_amounts,
                                  move_to_grocery[1])
            IN IF w1.exc # NoExc THEN Published(Response(w1, 500, <<>>), <<>>)
               ELSE IF publish_update(ws_manager, inv_topics) # NoExc
               THEN Published(Response(w1, 500, <<>>), <<inv_topics>>)
               ELSE IF ~move_to_grocery[1]
               THEN Published(Response(w1, 200, <<"kitchens", kitchen_id, "inventory">>),
                              <<inv_topics>>)
               ELSE IF publish_update(ws_manager, groc_topics) # NoExc
               THEN Published(Response(w1, 500, <<>>), <<inv_topics, groc_topics>>)
               ELSE Published(Response(w1, 200, <<"kitchens", kitchen_id, "inventory">>),
                              <<inv_topics, groc_topics>>)

\* alice has signed up and created "k1", bob has signed up; each holds the
\* auth token that signing up gave them.
InitHttp ==
    /\ users = ("alice" :> [NewUser("Alice", "pw1") EXCEPT !.ownedKitchens = <<"k1">>])
               @@ ("bob" :> NewUser("Alice", "pw1"))
    /\ kitchens = ("k1" :> NewKitchen("Home"))
    /\ products = Catalog
    /\ authTokens = ("t1" :> "alice") @@ ("t2" :> "bob")
    /\ index = (DefaultIndex :> [p \in DOMAIN Catalog |-> Catalog[p].name])
    /\ utcOffset = 0
    /\ ws_manager = WsInit
    /\ clients = [s \in Sessions |-> NoClient]
    /\ inflight = [s \in Sessions |-> NoRequest]
    /\ _default_index_buffer = <<>>
    /\ scraper = NoScraper
    /\ networker = NetworkerInit
    /\ orchestrator = NotStarted
    /\ last = NoCall

HttpSetAmounts == 0..HttpMaxUnits
HttpBuyAmounts == 1..HttpMaxUnits
HttpExpiryTuples == {<<>>, <<2025, 1, 10>>}
HttpExpiryAmounts ==
    {<<<<e, a>>>> : e \in {None, <<date(<<2025, 1, 10>>)>>}, a \in 1..HttpMaxUnits}
StockedKitchens == {"k1"}
MoveToGrocery == {None, <<TRUE>>, <<FALSE>>}

ListsOf(ks, k) ==
    IF k \in DOMAIN ks THEN <<ks[k].grocery, ks[k].inventory>> ELSE <<>>

\* One request: the handler's response r is sent and what it wrote is kept.
Request(op, method, cookie, kitchen_id, r) ==
    /\ \A k \in KitchenIds : Units(r.w, k, "p1") <= HttpMaxUnits
    /\ Commit(r.w)
    /\ last' = [op |-> op, method |-> method,
                identity |-> extract_client_email(World, cookie),
                kitchen |-> kitchen_id,
                hadAccess |-> \E email \in DOMAIN users :
                                 /\ <<email>> = extract_client_email(World, cookie)
                                 /\ HadAccess(users, email, kitchen_id),
                status |-> r.status, location |-> r.location,
                wroteLists |-> ListsOf(r.w.kitchens, kitchen_id)
                                   # ListsOf(kitchens, kitchen_id),
                wrote |-> [r.w EXCEPT !.exc = NoExc, !.ret = "None"] # World]
    /\ UNCHANGED <<utcOffset, ws_manager, clients, inflight, scraper,
                   networker, orchestrator>>

GetIndex ==
    \E cookie \in Cookies :
        Request("index", "GET", cookie, "", server_index(World, cookie))
PostKitchens ==
    \E cookie \in Cookies, kitchen_name \in KitchenNames,
       kitchen_id \in KitchenIds \ DOMAIN kitchens :
        Request("create_kitchen", "POST", cookie, "",
                server_create_kitchen(World, cookie, kitchen_name, kitchen_id))
PostShare ==
    \E cookie \in Cookies, k \in KitchenIds, email \in Emails :
        Request("kitchen_share", "POST", cookie, k,
                kitchen_share(World, cookie, k, email))
PostLeave ==
    \E cookie \in Cookies, k \in KitchenIds :
        Request("kitchen_leave", "POST", cookie, k, kitchen_leave(World, cookie, k))
GetKitchen ==
    \E cookie \in Cookies, k \in KitchenIds :
        Request("kitchen_index", "GET", cookie, k, kitchen_index(World, cookie, k))
GetSettings ==
    \E cookie \in Cookies, k \in KitchenIds :
        Request("kitchen_settings", "GET", cookie, k,
                kitchen_settings(World, cookie, k))
PostSet ==
    \E cookie \in Cookies, k \in StockedKitchens, a \in HttpSetAmounts :
        Request("set_product", "POST", cookie, k,
                set_product(World, cookie, k, "p1", a))
PostBuy ==
    \E cookie \in Cookies, k \in StockedKitchens,
       e \in HttpExpiryTuples, a \in HttpBuyAmounts :
        Request("buy_grocery_product", "POST", cookie, k,
                buy_grocery_product(World, cookie, k, "p1", e, a))
PostUse ==
    \E cookie \in Cookies, k \in StockedKitchens, m \in MoveToGrocery,
       ea \in HttpExpiryAmounts :
        Request("use_inventory_product", "POST", cookie, k,
                use_inventory_product(World, cookie, k, "p1", m, ea))

NextHttp ==
    \/ GetIndex \/ PostKitchens \/ PostShare \/ PostLeave \/ GetKitchen
    \/ GetSettings \/ PostSet \/ PostBuy \/ PostUse

SpecHttp == InitHttp /\ [][NextHttp]_vars

----------------------------------------------------------------------------
(* Properties of the route handlers (specification SpecHttp) *)

KitchenScoped ==
    {"kitchen_share", "kitchen_leave", "kitchen_index", "kitchen_settings",
     "set_product", "buy_grocery_product", "use_inventory_product"}

\* The routes whose handler asks for the client's identity.
IdentityRequired ==
    {"create_kitchen", "kitchen_share", "kitchen_leave", "kitchen_index",
     "kitchen_settings", "set_product", "use_inventory_product"}

\* C9: a request to a kitchen-scoped endpoint by an identified user who is
\* neither the owner nor a member of the kitchen is answered 403 Forbidden
\* and leaves the kitchen's grocery and inventory lists as they were.
C9_NoAccessIsForbidden ==
    (/\ last.op \in KitchenScoped
     /\ last.identity # None
     /\ ~last.hadAccess) =>
        /\ last.status = 403
        /\ ~last.wroteLists

\* C10: a request whose auth_token cookie is absent or resolves to no
\* account is answered, on an identity-required GET route, by a redirect to
\* /login and, on an identity-required POST route, by 401 Unauthorized with
\* nothing written.
C10_NoIdentityIsTurnedAway ==
    (last.op \in IdentityRequired /\ last.identity = None) =>
        IF last.method = "GET"
        THEN last.status = 302 /\ last.location = <<"login">>
        ELSE last.status = 401 /\ ~last.wrote

----------------------------------------------------------------------------
(* Logging in (specification SpecLogin) *)

TokenIds == {"t1", "t2"}

Wrote(w) == [w EXCEPT !.exc = NoExc, !.ret = "None"] # World

LoginIsValid(email, password) ==
    \E w \in {login_is_valid(World, email, password)} :
       /\ Commit(w)
       /\ last' = [op |-> "login_is_valid", exc |-> w.exc, ret |-> w.ret,
                   email |-> email, password |-> password, wrote |-> Wrote(w)]
       /\ UNCHANGED <<utcOffset, ws_manager, clients, inflight, scraper,
                   networker, orchestrator>>

\* The login handler of server.py: the failure partial, or a redirect to
\* /kitchens with a new auth_token cookie.
login(w, email, password, auth_token) ==
    LET valid == login_is_valid(w, email, password)
    IN IF valid.ret # "True" THEN [w |-> w, location |-> <<>>, cookie |-> None]
       ELSE [w |-> generate_auth_token(w, email, auth_token),
             location |-> <<"kitchens">>, cookie |-> <<auth_token>>]

PostLogin(email, password) ==
    \E auth_token \in TokenIds \ DOMAIN authTokens :
    \E r \in {login(World, email, password, auth_token)} :
       /\ Commit(r.w)
       /\ last' = [op |-> "login", exc |-> NoExc, ret |-> "None",
                   email |-> email, password |-> password, wrote |-> Wrote(r.w),
                   location |-> r.location, cookie |-> r.cookie]
       /\ UNCHANGED <<utcOffset, ws_manager, clients, inflight, scraper,
                   networker, orchestrator>>

SignUpAny == \E name \in UserNames, email \in Emails, password \in Passwords :
                CreateUser(name, email, password)
CheckLogin == \E email \in Emails, password \in Passwords : LoginIsValid(email, password)
LogIn == \E email \in Emails, password \in Passwords : PostLogin(email, password)

NextLogin == SignUpAny \/ CheckLogin \/ LogIn

SpecLogin == InitShare /\ [][NextLogin]_vars

\* C11: login_is_valid returns true exactly for an existing account with
\* the matching password; for an unknown email and for a wrong password it
\* returns false, raises nothing and writes nothing, so the two failures give
\* the same result and leave the same store.
C11_LoginFailuresAlike ==
    last.op = "login_is_valid" =>
        /\ last.exc = NoExc
        /\ ~last.wrote
        /\ last.ret = IF /\ last.email \in DOMAIN users
                         /\ users[last.email].auth = Hash(last.password)
                      THEN "True" ELSE "False"

\* A wrong password was tried on an existing account.
C11_Witness ==
    /\ last.op = "login_is_valid"
    /\ last.email \in DOMAIN users
    /\ users[last.email].auth # Hash(last.password)
    /\ last.ret = "False"

----------------------------------------------------------------------------
(* Calls of the WebSocketManager (specification SpecWs) *)

TopicLists == {<<>>, <<<<"k1", "grocery">>>>, <<<<"k2", "grocery">>>>,
               <<<<"k1", "grocery">>, <<"k2", "grocery">>>>}
Renderers == {None, <<"render_barcode_redirector">>}

Range(list) == {list[i] : i \in 1..Len(list)}

\* What has been sent on the session's connection.
Sent(m, s) == MapGet(m._connections, s, <<>>)
SentAll(m) == [s \in Sessions |-> Sent(m, s)]

UnchangedStore ==
    UNCHANGED <<users, kitchens, products, authTokens, index,
          _default_index_buffer, utcOffset, inflight, scraper,
                   networker, orchestrator>>

\* A call of subscribe with all three arguments.
Subscribe(s, topic_renderers, receiving_renderer) ==
    \E r \in {subscribe(ws_manager, s, topic_renderers, receiving_renderer)} :
       /\ ws_manager' = r.m
       /\ clients' = [clients EXCEPT ![s].asked = Range(topic_renderers),
                                     ![s].receiving = receiving_renderer # None]
       /\ last' = [op |-> "subscribe", exc |-> r.exc, session |-> s,
                   topics |-> topic_renderers,
                   had |-> s \in DOMAIN ws_manager._unsubscribers]
       /\ UnchangedStore

\* The call the page handlers make, ws_manager.subscribe(session_token,
\* {...}): receiving_renderer has no default, so the call raises TypeError
\* before the body runs.
PageSubscribe(s, topic_renderers) ==
    /\ last' = [op |-> "subscribe", exc |-> "TypeError", session |-> s,
                topics |-> topic_renderers,
                had |-> s \in DOMAIN ws_manager._unsubscribers]
    /\ clients' = [clients EXCEPT ![s].asked = Range(topic_renderers),
                                  ![s].receiving = FALSE]
    /\ UNCHANGED ws_manager
    /\ UnchangedStore

Publish(topics) ==
    /\ last' = [op |-> "publish_update", exc |-> publish_update(ws_manager, topics),
                topics |-> topics, sent |-> SentAll(ws_manager)]
    /\ UNCHANGED <<ws_manager, clients>>
    /\ UnchangedStore

\* The websocket handler of server.py, in the three parts of
\* handle_connection: the socket opens, a message arrives, the socket closes.
WsOpen(s) ==
    /\ ~clients[s].open
    /\ \E r \in {handle_connection_open(ws_manager, s)} :
          /\ ws_manager' = r.m
          /\ last' = [op |-> "open", exc |-> r.exc, session |-> s]
    /\ clients' = [clients EXCEPT ![s].open = TRUE]
    /\ UnchangedStore

WsMessage(s, data) ==
    /\ clients[s].open
    /\ \E r \in {handle_connection_message(ws_manager, s, data)} :
          /\ ws_manager' = r.m
          /\ last' = [op |-> "message", exc |-> r.exc, session |-> s,
                      data |-> data, sent |-> SentAll(ws_manager)]
    /\ UNCHANGED clients
    /\ UnchangedStore

WsClose(s) ==
    /\ clients[s].open
    /\ \E r \in {handle_connection_close(ws_manager, s)} :
          /\ ws_manager' = r.m
          /\ last' = [op |-> "close", exc |-> r.exc, session |-> s,
                      held |-> clients[s]]
    /\ clients' = [clients EXCEPT ![s] = NoClient]
    /\ UnchangedStore

SubscribeAny == \E s \in Sessions, t \in TopicLists, r \in Renderers : Subscribe(s, t, r)
PageSubscribeAny == \E s \in Sessions, t \in TopicLists \ {<<>>} : PageSubscribe(s, t)
PublishAny == \E t \in TopicLists \ {<<>>} : Publish(t)
OpenAny == \E s \in Sessions : WsOpen(s)
MessageAny == \E s \in Sessions, data \in Messages : WsMessage(s, data)
CloseAny == \E s \in Sessions : WsClose(s)

NextWs == SubscribeAny \/ PageSubscribeAny \/ PublishAny \/ OpenAny
          \/ MessageAny \/ CloseAny

SpecWs == InitShare /\ [][NextWs]_vars

Registered(m, s, t) ==
    t \in DOMAIN m._topic_based_updaters /\ <<s, t>> \in m._topic_based_updaters[t]

\* C12: publish_update(topics) sends a fragment on the connection of a
\* session exactly if the session's subscription names one of the topics:
\* a session subscribed to k1.grocery gets a fragment from
\* publish_update(["k1.grocery"]), a session subscribed to k2.grocery none.
C12_PublishReachesSubscribers ==
    last.op = "publish_update" =>
        \A s \in Sessions :
            clients[s].open =>
                (Len(Sent(ws_manager, s)) > Len(last.sent[s])
                    <=> clients[s].asked \cap Range(last.topics) # {})

\* C13: after subscribe(s, T, ...) for a session that had a subscription,
\* the session's callbacks are registered under exactly the topics of T.
C13_ResubscribeReplaces ==
    (last.op = "subscribe" /\ last.had) =>
        /\ last.exc = NoExc
        /\ \A t \in Topics :
              Registered(ws_manager, last.session, t) <=> t \in Range(last.topics)

\* C14: when a session's connection has closed, handle_connection has
\* ended without an exception and no table of the manager refers to the
\* session, whatever subscription the session held.
C14_CloseForgetsSession ==
    last.op = "close" =>
        /\ last.exc = NoExc
        /\ last.session \notin DOMAIN ws_manager._connections
        /\ last.session \notin DOMAIN ws_manager._unsubscribers
        /\ last.session \notin DOMAIN ws_manager._message_based_updaters
        /\ \A t \in Topics : ~Registered(ws_manager, last.session, t)

\* C15: a message that arrives on the connection of a session subscribed
\* with a receiving_renderer is rendered and the result is sent back on that
\* connection, after the results of the messages before it.
C15_MessageIsAnswered ==
    (/\ last.op = "message"
     /\ last.session \in DOMAIN ws_manager._unsubscribers
     /\ ws_manager._unsubscribers[last.session].receiving) =>
        Sent(ws_manager, last.session)
            = Append(last.sent[last.session], Rendered(last.data))

----------------------------------------------------------------------------
(* Properties of the lists (specification Spec) *)

\* C16: every entry stored in a kitchen's grocery map has an amount >= 1,
\* after any sequence of set_groc_product_count, buy_product (buying more
\* than is listed included) and use_product calls.
C16_GroceryAmountsPositive ==
    \A k \in DOMAIN kitchens :
        \A p \in DOMAIN kitchens[k].grocery : kitchens[k].grocery[p] >= 1

\* More units were bought than the grocery list held.
C16_Witness ==
    /\ last.op = "buy_product"
    /\ last.exc = NoExc
    /\ last.found.grocery >= 1
    /\ last.amount > last.found.grocery

----------------------------------------------------------------------------
(* Two sessions' requests handled at once (specification SpecRace).  The
   server is one aiohttp event loop: a handler runs until its next await,
   and another handler can run only there.  buy_grocery_product and
   use_inventory_product await request.post() (the body's arrival) and then
   call the DatabaseClient, whose methods are synchronous; set_product
   awaits nothing before its call. *)

RaceBuys == {[op |-> "buy", amount |-> a, expiry |-> e] :
                a \in 1..2, e \in HttpExpiryTuples}
RaceSets == {[op |-> "set", amount |-> a, expiry |-> <<>>] : a \in 0..2}
RaceUses == {[op |-> "use", amount |-> 1, expiry |-> e] : e \in HttpExpiryTuples}

ExpiryDate(expiry) == IF expiry = <<>> THEN None ELSE <<date(expiry)>>

\* The DatabaseClient call that the request's handler makes.
DbCall(w, q) ==
    IF q.op = "buy" THEN buy_product(w, "k1", "p1", q.expiry, q.amount)
    ELSE IF q.op = "set" THEN set_groc_product_count(w, "k1", "p1", q.amount)
    ELSE use_product(w, "k1", "p1", <<<<ExpiryDate(q.expiry), q.amount>>>>, TRUE)

\* The request's handler, from the point where it has its body.
Handle(w, q) ==
    IF q.op = "buy"
    THEN buy_grocery_product(w, <<"t1">>, "k1", "p1", q.expiry, q.amount)
    ELSE IF q.op = "set" THEN set_product(w, <<"t1">>, "k1", "p1", q.amount)
    ELSE use_inventory_product(w, <<"t1">>, "k1", "p1", <<TRUE>>,
                               <<<<ExpiryDate(q.expiry), q.amount>>>>)

Clean(w) == [w EXCEPT !.exc = NoExc, !.ret = "None"]

\* Faulty variant of StoreAtCall: the call works on the store as it was when
\* the request arrived.
StoreAtArrival(seen, now) == seen

\* The store a handler's DatabaseClient call reads and writes: no await lies
\* between the reads and the writes of the call, so it is the store of the
\* moment of the call, whatever it was when the request arrived.
StoreAtCall(seen, now) == now

\* alice owns "k1" and has put g units of p1 on its grocery list and bought
\* b units with an expiry date.
RaceStart(g, b) ==
    LET w0 == [users |-> ("alice" :> [NewUser("Alice", "pw1")
                                        EXCEPT !.ownedKitchens = <<"k1">>]),
               kitchens |-> ("k1" :> NewKitchen("Home")),
               products |-> Catalog,
               authTokens |-> ("t1" :> "alice"),
               index |-> (DefaultIndex :> [p \in DOMAIN Catalog |-> Catalog[p].name]),
               buffer |-> <<>>, offset |-> 0, exc |-> NoExc, ret |-> "None"]
        w1 == set_groc_product_count(w0, "k1", "p1", g + b)
    IN Clean(buy_product(w1, "k1", "p1", <<2025, 1, 10>>, b))

InitRace ==
    \E g \in 0..2, b \in 0..2 :
       /\ users = RaceStart(g, b).users
       /\ kitchens = RaceStart(g, b).kitchens
       /\ products = RaceStart(g, b).products
       /\ authTokens = RaceStart(g, b).authTokens
       /\ index = RaceStart(g, b).index
       /\ utcOffset = 0
       /\ ws_manager = WsInit
       /\ clients = [s \in Sessions |-> NoClient]
       /\ inflight = [s \in Sessions |-> NoRequest]
       /\ _default_index_buffer = <<>>
       /\ scraper = NoScraper
       /\ networker = NetworkerInit
       /\ orchestrator = NotStarted
       /\ last = [op |-> "race", start |-> RaceStart(g, b), order |-> <<>>,
                  overlap |-> FALSE]

\* The request's handler has run to its end.
Finish(s, q, seen) ==
    \E r \in {Handle(StoreAtCall(seen, World), q)} :
       /\ Commit(r.w)
       /\ inflight' = [inflight EXCEPT ![s] = [pc |-> "done", status |-> r.status]]
       /\ last' = [last EXCEPT !.order = Append(@, q),
                               !.overlap = @ \/ \E o \in Sessions \ {s} :
                                                   inflight[o].pc = "body"]
       /\ UNCHANGED <<utcOffset, ws_manager, clients, scraper,
                   networker, orchestrator>>

\* A buy or use request arrives: its handler runs up to await request.post().
RaceArrive(s, q) ==
    /\ inflight[s].pc = "idle"
    /\ inflight' = [inflight EXCEPT ![s] = [pc |-> "body", request |-> q,
                                            seen |-> World]]
    /\ UNCHANGED <<users, kitchens, products, authTokens, index,
          _default_index_buffer, utcOffset,
                   ws_manager, clients, scraper,
                   networker, orchestrator, last>>

\* The body is there: the handler runs on to its end.
RaceResume(s) ==
    /\ inflight[s].pc = "body"
    /\ Finish(s, inflight[s].request, inflight[s].seen)

\* A set request arrives: its handler runs to its end.
RaceSet(s, q) ==
    /\ inflight[s].pc = "idle"
    /\ Finish(s, q, World)

ArriveAny == \E s \in Sessions, q \in RaceBuys \cup RaceUses : RaceArrive(s, q)
ResumeAny == \E s \in Sessions : RaceResume(s)
SetAny == \E s \in Sessions, q \in RaceSets : RaceSet(s, q)

NextRace == ArriveAny \/ ResumeAny \/ SetAny

SpecRace == InitRace /\ [][NextRace]_vars /\ WF_vars(NextRace)

BothDone == \A s \in Sessions : inflight[s].pc = "done"

\* What the two calls leave when one runs after the other.
Serial(start, q1, q2) == Clean(DbCall(Clean(DbCall(start, q1)), q2))

UpdateLost ==
    /\ BothDone
    /\ Clean(World) # Serial(last.start, last.order[1], last.order[2])

----------------------------------------------------------------------------
(* The page model getters on stocked kitchens (specification SpecPages).
   The catalog has two products of one category, a category that sorts after
   "Unowned products", and three names that hold the word "Milk".  Which id
   carries which product varies, and with it the order in which the search
   engine's hits arrive. *)

PageIds == <<"q1", "q2", "q3", "q4">>
PageEntries ==
    <<[name |-> "Milk", category |-> "Dairy"],
      [name |-> "Oat Milk", category |-> "Vegan"],
      [name |-> "Butter", category |-> "Dairy"],
      [name |-> "Milk Bun", category |-> "Bakery"]>>
PageCatalog(r) ==
    [p \in Range(PageIds) |->
        PageEntries[((r + CHOOSE i \in 1..Len(PageIds) : PageIds[i] = p)
                        % Len(PageEntries)) + 1]]
PageQueries == {"", "Milk"}

\* What alice did with a product: nothing, put it on the grocery list, bought
\* it with the expiry dates named, or bought it with no expiry date.
Plans == {"nothing", "listed", "jan", "mar", "jan and jun", "undated",
          "listed and undated"}

Stocked(w, p, plan) ==
    LET Bought(v, ymd) == Clean(buy_product(v, "k1", p, ymd, 1))
        Listing(v, n) == Clean(set_groc_product_count(v, "k1", p, n))
    IN IF plan = "listed" THEN Listing(w, 1)
       ELSE IF plan = "jan" THEN Bought(w, <<2025, 1, 10>>)
       ELSE IF plan = "mar" THEN Bought(w, <<2025, 3, 1>>)
       ELSE IF plan = "jan and jun"
            THEN Bought(Bought(w, <<2025, 6, 1>>), <<2025, 1, 10>>)
       ELSE IF plan = "undated" THEN Bought(w, None)
       ELSE IF plan = "listed and undated" THEN Bought(Listing(w, 2), None)
       ELSE w

RECURSIVE StockedAll(_, _, _)
StockedAll(w, plans, n) ==
    IF n = 0 THEN w
    ELSE Stocked(StockedAll(w, plans, n - 1), PageIds[n], plans[PageIds[n]])

PageStart(r, plans) ==
    StockedAll(
        [users |-> ("alice" :> [NewUser("Alice", "pw1")
                                  EXCEPT !.ownedKitchens = <<"k1">>]),
         kitchens |-> ("k1" :> NewKitchen("Home")),
         products |-> PageCatalog(r),
         authTokens |-> <<>>,
         index |-> (DefaultIndex :> [p \in Range(PageIds) |-> PageCatalog(r)[p].name]),
         buffer |-> <<>>, offset |-> 28800, exc |-> NoExc, ret |-> "None"],
        plans, Len(PageIds))

InitPages ==
    \E r \in 0..(Len(PageIds) - 1), plans \in [Range(PageIds) -> Plans] :
       \E w \in {PageStart(r, plans)} :
          /\ users = w.users
          /\ kitchens = w.kitchens
          /\ products = w.products
          /\ authTokens = w.authTokens
          /\ index = w.index
          /\ utcOffset = 28800
          /\ ws_manager = WsInit
          /\ clients = [s \in Sessions |-> NoClient]
          /\ inflight = [s \in Sessions |-> NoRequest]
          /\ _default_index_buffer = <<>>
          /\ scraper = NoScraper
          /\ networker = NetworkerInit
          /\ orchestrator = NotStarted
          /\ last = NoCall

Viewed(op, search_query, page) ==
    /\ last' = [op |-> op, query |-> search_query, exc |-> page.exc,
                page |-> page.products]
    /\ UNCHANGED <<users, kitchens, products, authTokens, index,
          _default_index_buffer, utcOffset,
                   ws_manager, clients, inflight, scraper,
                   networker, orchestrator>>

InventoryPage ==
    \E q \in PageQueries :
       Viewed("inventory_page_model", q, inventory_page_model(World, "alice", "k1", q))

SortedInventoryPage ==
    \E q \in PageQueries :
       Viewed("sorted_inventory_page_model", q,
              sorted_inventory_page_model(World, "alice", "k1", q))

GroceryPage ==
    \E q \in PageQueries :
       Viewed("grocery_page_model", q, grocery_page_model(World, "alice", "k1", q))

NextPages == InventoryPage \/ SortedInventoryPage \/ GroceryPage

SpecPages == InitPages /\ [][NextPages]_vars

\* Places of a page that groups products by category, and the hits of the
\* search that a page was made from.
Places(page) ==
    {pl \in (1..Len(page)) \X (1..Len(PageIds)) : pl[2] <= Len(page[pl[1]].products)}
At(page, pl) == page[pl[1]].products[pl[2]]
InventoryHits == search_inventory_products(World, "k1", last.query)

NamesAscend(list) ==
    \A i, j \in 1..Len(list) : i < j => Rank(list[i].name) <= Rank(list[j].name)

\* C18: inventory_page_model groups the products that the inventory search
\* found by category; the categories come in ascending alphabetical order,
\* the products of a category in ascending alphabetical order of name, and
\* every found product appears exactly once, under its own category.
C18_InventoryPageSorted ==
    last.op = "inventory_page_model" =>
        /\ last.exc = NoExc
        /\ \A c, d \in 1..Len(last.page) :
              c < d => Rank(last.page[c].category) < Rank(last.page[d].category)
        /\ \A c \in 1..Len(last.page) :
              /\ last.page[c].products # <<>>
              /\ NamesAscend(last.page[c].products)
        /\ \A pl \in Places(last.page) :
              /\ At(last.page, pl).id \in InventoryHits
              /\ At(last.page, pl).category = products[At(last.page, pl).id].category
              /\ At(last.page, pl).name = products[At(last.page, pl).id].name
              /\ last.page[pl[1]].category = At(last.page, pl).category
        /\ \A x \in InventoryHits :
              Cardinality({pl \in Places(last.page) : At(last.page, pl).id = x}) = 1

\* All four products are in the inventory, in three categories, and the hits
\* arrived neither in the order of the categories nor, for the category of
\* two products, in the order of the names.
C18_Witness ==
    /\ last.op = "inventory_page_model"
    /\ Cardinality(InventoryHits) = 4
    /\ Len(last.page) = 3
    /\ Len(last.page[2].products) = 2
    /\ Listed(InventoryHits)[1] # last.page[1].products[1].id
    /\ \E i, j \in 1..4 :
          /\ i < j
          /\ Listed(InventoryHits)[i] = last.page[2].products[2].id
          /\ Listed(InventoryHits)[j] = last.page[2].products[1].id

GroceryAmount(x) == MapGet(kitchens["k1"].grocery, x, 0)

\* C19: grocery_page_model places every product whose grocery amount is 0
\* (a catalog-only match of the search) under "Unowned products" and every
\* other product under its own category; the other categories come in
\* alphabetical order and "Unowned products" comes last, also when another
\* category's name sorts after it; the products of a category come in
\* alphabetical order of name; with an empty query no product of the default
\* catalog is added to those of the grocery list.
C19_GroceryPageSorted ==
    last.op = "grocery_page_model" =>
        /\ last.exc = NoExc
        /\ \A pl \in Places(last.page) :
              /\ At(last.page, pl).amount = GroceryAmount(At(last.page, pl).id)
              /\ last.page[pl[1]].category =
                    IF GroceryAmount(At(last.page, pl).id) = 0
                    THEN "Unowned products"
                    ELSE products[At(last.page, pl).id].category
        /\ \A c, d \in 1..Len(last.page) :
              c < d =>
                 /\ last.page[c].category # "Unowned products"
                 /\ \/ last.page[d].category = "Unowned products"
                    \/ Rank(last.page[c].category) < Rank(last.page[d].category)
        /\ \A c \in 1..Len(last.page) : NamesAscend(last.page[c].products)
        /\ \A x \in search_grocery_products(World, "k1", last.query) :
              \E pl \in Places(last.page) : At(last.page, pl).id = x
        /\ last.query = "" =>
              \A pl \in Places(last.page) :
                 At(last.page, pl).id \in DOMAIN kitchens["k1"].grocery

\* A search matched a listed product of a category that sorts after "Unowned
\* products" and two catalog-only products, which arrived in another order
\* than that of their names.
C19_Witness ==
    /\ last.op = "grocery_page_model"
    /\ last.query # ""
    /\ Len(last.page) = 2
    /\ Rank(last.page[1].category) > Rank("Unowned products")
    /\ last.page[2].category = "Unowned products"
    /\ Len(last.page[2].products) = 2
    /\ Listed(search_default_products(World, last.query)
                  \ search_grocery_products(World, "k1", last.query))
           = <<last.page[2].products[2].id, last.page[2].products[1].id>>

\* The expiry dates under which the kitchen holds the product.
DatedDays(x) ==
    {fromtimestamp(ts, utcOffset) :
        ts \in (DOMAIN MapGet(kitchens["k1"].inventory, x, <<>>)) \ {-1}}

Ids(list) == [i \in 1..Len(list) |-> list[i].id]

\* C20: sorted_inventory_page_model returns first every found product that
\* has a dated expiry entry, in ascending order of its earliest expiry date,
\* then every found product that has none, in alphabetical order of name;
\* products A (2025-01-10), B (2025-03-01) and C (no expiry date) come out
\* as A, B, C.
C20_SortedInventoryPage ==
    last.op = "sorted_inventory_page_model" =>
        /\ last.exc = NoExc
        /\ \A x \in InventoryHits :
              Cardinality({i \in 1..Len(last.page) : last.page[i].id = x}) = 1
        /\ \A i \in 1..Len(last.page) :
              /\ last.page[i].id \in InventoryHits
              /\ DOMAIN last.page[i].expiries = DatedDays(last.page[i].id)
        /\ \A i, j \in 1..Len(last.page) :
              i < j =>
                 /\ DatedDays(last.page[j].id) # {} => DatedDays(last.page[i].id) # {}
                 /\ DatedDays(last.page[j].id) # {} =>
                       \E d \in DatedDays(last.page[i].id) :
                          \A e \in DatedDays(last.page[j].id) : d <= e
                 /\ DatedDays(last.page[i].id) = {} =>
                       Rank(last.page[i].name) <= Rank(last.page[j].name)
        /\ \A a, b, c \in Range(PageIds) :
              /\ InventoryHits = {a, b, c}
              /\ DatedDays(a) = {date(<<2025, 1, 10>>)}
              /\ DatedDays(b) = {date(<<2025, 3, 1>>)}
              /\ DatedDays(c) = {}
              => Ids(last.page) = <<a, b, c>>

\* The page of a product that expires in March, one that expires in January
\* and in June and two that have no expiry date, in an order in which the
\* hits did not arrive.
C20_Witness ==
    /\ last.op = "sorted_inventory_page_model"
    /\ Len(last.page) = 4
    /\ DatedDays(last.page[1].id) = {date(<<2025, 1, 10>>), date(<<2025, 6, 1>>)}
    /\ DatedDays(last.page[2].id) = {date(<<2025, 3, 1>>)}
    /\ DatedDays(last.page[3].id) = {}
    /\ DatedDays(last.page[4].id) = {}
    /\ Listed(InventoryHits)[1] = last.page[4].id
    /\ Listed(InventoryHits)[2] = last.page[2].id

\* The products of the example are in the inventory and come out as A, B, C,
\* having arrived as C, B, A.
C20_ExampleSeen ==
    /\ last.op = "sorted_inventory_page_model"
    /\ Len(last.page) = 3
    /\ DatedDays(last.page[1].id) = {date(<<2025, 1, 10>>)}
    /\ DatedDays(last.page[2].id) = {date(<<2025, 3, 1>>)}
    /\ DatedDays(last.page[3].id) = {}
    /\ Listed(InventoryHits) = <<last.page[3].id, last.page[2].id, last.page[1].id>>

----------------------------------------------------------------------------
(* Leaving a kitchen one is not a member of *)

WasMember(b, e, k) ==
    /\ Contains(b.users[e].sharedKitchens, k)
    /\ k \in DOMAIN b.kitchens
    /\ Contains(b.kitchens[k].nonAdmins, e)

\* C21: leave_kitchen(email, kitchen) removes the kitchen from the user's
\* shared list and the user from the kitchen's non-admin list; when either
\* side is absent already (the caller owns the kitchen, or was never a
\* member) it signals no error and leaves the store unchanged.
C21_LeaveWhenAbsentIsSilent ==
    last.op = "leave_kitchen" =>
        LET b == last.before
            e == last.email
            k == last.kitchen
        IN IF WasMember(b, e, k)
           THEN /\ last.exc = NoExc
                /\ users = [b.users EXCEPT ![e].sharedKitchens = ListRemove(@, k)]
                /\ kitchens = [b.kitchens EXCEPT ![k].nonAdmins = ListRemove(@, e)]
           ELSE /\ last.exc = NoExc
                /\ users = b.users
                /\ kitchens = b.kitchens

\* What the code does for C21: a member is removed from both lists without
\* an error; for anyone else the call raises and the store is unchanged.
C21_LeaveWhenAbsentRaises ==
    last.op = "leave_kitchen" =>
        LET b == last.before
            e == last.email
            k == last.kitchen
        IN IF WasMember(b, e, k)
           THEN /\ last.exc = NoExc
                /\ users = [b.users EXCEPT ![e].sharedKitchens = ListRemove(@, k)]
                /\ kitchens = [b.kitchens EXCEPT ![k].nonAdmins = ListRemove(@, e)]
           ELSE /\ last.exc = "ValueError"
                /\ users = b.users
                /\ kitchens = b.kitchens

----------------------------------------------------------------------------
(* Accounts and auth tokens (specification SpecAuth).  last.issued maps
   every token that generate_auth_token returned, and that was not passed to
   delete_auth_token since, to the email it was generated for. *)

AuthEmails == {"alice", "bob"}
AuthNames == {"Alice", "Al"}

\* The signup handler of server.py: the failure partial, or a redirect to
\* /kitchens with a new auth_token cookie.
signup(w, username, email, password, auth_token) ==
    LET created == create_user(w, username, email, password)
    IN IF created.ret # "True"
       THEN [w |-> created, ret |-> created.ret, location |-> <<>>, cookie |-> None]
       ELSE [w |-> generate_auth_token(created, email, auth_token),
             ret |-> created.ret,
             location |-> <<"kitchens">>, cookie |-> <<auth_token>>]

Before == [users |-> users, authTokens |-> authTokens]

InitAuth ==
    /\ users = <<>>
    /\ kitchens = <<>>
    /\ products = Catalog
    /\ authTokens = <<>>
    /\ index = (DefaultIndex :> [p \in DOMAIN Catalog |-> Catalog[p].name])
    /\ utcOffset = 0
    /\ ws_manager = WsInit
    /\ clients = [s \in Sessions |-> NoClient]
    /\ inflight = [s \in Sessions |-> NoRequest]
    /\ _default_index_buffer = <<>>
    /\ scraper = NoScraper
    /\ networker = NetworkerInit
    /\ orchestrator = NotStarted
    /\ last = [op |-> "none", exc |-> NoExc, issued |-> <<>>]

AuthCall(w, call, issued) ==
    /\ Commit(w)
    /\ last' = [call EXCEPT !.issued = issued, !.before = Before]
    /\ UNCHANGED <<utcOffset, ws_manager, clients, inflight, scraper,
                   networker, orchestrator>>

AuthCreateUser(name, email, password) ==
    \E w \in {create_user(World, name, email, password)} :
       AuthCall(w, [op |-> "create_user", exc |-> w.exc, ret |-> w.ret,
                    name |-> name, email |-> email, password |-> password,
                    cookie |-> None, token |-> None,
                    issued |-> <<>>, before |-> <<>>],
                last.issued)

AuthSignup(name, email, password) ==
    \E auth_token \in TokenIds \ DOMAIN authTokens :
    \E r \in {signup(World, name, email, password, auth_token)} :
       AuthCall(r.w, [op |-> "signup", exc |-> NoExc, ret |-> r.ret,
                      name |-> name, email |-> email, password |-> password,
                      cookie |-> r.cookie, token |-> None,
                      issued |-> <<>>, before |-> <<>>],
                IF r.cookie = None THEN last.issued
                ELSE MapPut(last.issued, auth_token, email))

AuthLogin(email, password) ==
    \E auth_token \in TokenIds \ DOMAIN authTokens :
    \E r \in {login(World, email, password, auth_token)} :
       AuthCall(r.w, [op |-> "login", exc |-> NoExc, ret |-> "None",
                      name |-> "", email |-> email, password |-> password,
                      cookie |-> r.cookie, token |-> None,
                      issued |-> <<>>, before |-> <<>>],
                IF r.cookie = None THEN last.issued
                ELSE MapPut(last.issued, auth_token, email))

AuthNewKitchen(email) ==
    \E w \in {create_kitchen(World, email, "Home", "k1")} :
       /\ "k1" \notin DOMAIN kitchens
       /\ AuthCall(w, [op |-> "create_kitchen", exc |-> w.exc, ret |-> w.ret,
                       name |-> "", email |-> email, password |-> "",
                       cookie |-> None, token |-> None,
                       issued |-> <<>>, before |-> <<>>],
                   last.issued)

AuthDelete(auth_token) ==
    \E w \in {delete_auth_token(World, auth_token)} :
       AuthCall(w, [op |-> "delete_auth_token", exc |-> w.exc, ret |-> w.ret,
                    name |-> "", email |-> "", password |-> "",
                    cookie |-> None, token |-> <<auth_token>>,
                    issued |-> <<>>, before |-> <<>>],
                MapDel(last.issued, auth_token))

AuthOwner(auth_token) ==
    AuthCall(World, [op |-> "get_auth_token_owner", exc |-> NoExc,
                     ret |-> get_auth_token_owner(World, auth_token),
                     name |-> "", email |-> "", password |-> "",
                     cookie |-> None, token |-> <<auth_token>>,
                     issued |-> <<>>, before |-> <<>>],
             last.issued)

CreateAny == \E name \in AuthNames, email \in AuthEmails, password \in Passwords :
                AuthCreateUser(name, email, password)
SignupAny == \E name \in AuthNames, email \in AuthEmails, password \in Passwords :
                AuthSignup(name, email, password)
LoginAny == \E email \in AuthEmails, password \in Passwords : AuthLogin(email, password)
NewKitchenAny == \E email \in DOMAIN users : AuthNewKitchen(email)
DeleteAny == \E auth_token \in TokenIds : AuthDelete(auth_token)
OwnerAny == \E auth_token \in TokenIds : AuthOwner(auth_token)

NextAuth == CreateAny \/ SignupAny \/ LoginAny \/ NewKitchenAny \/ DeleteAny \/ OwnerAny

SpecAuth == InitAuth /\ [][NextAuth]_vars

Existed == last.email \in DOMAIN last.before.users

\* C22: create_user returns false and leaves the existing record (name,
\* password hash, owned and shared kitchen lists) untouched when the email
\* has an account already; otherwise it creates the record with empty owned
\* and shared lists and returns true.  A signup that is rejected issues no
\* auth_token.
C22_CreateUserKeepsExisting ==
    last.op \in {"create_user", "signup"} =>
        /\ last.exc = NoExc
        /\ IF Existed
           THEN /\ last.ret = "False"
                /\ users = last.before.users
                /\ last.cookie = None
                /\ authTokens = last.before.authTokens
           ELSE /\ last.ret = "True"
                /\ users = MapPut(last.before.users, last.email,
                                  [name |-> last.name, auth |-> Hash(last.password),
                                   ownedKitchens |-> <<>>, sharedKitchens |-> <<>>])

\* A signup was rejected for an email whose account owns a kitchen and has
\* another name and password than those of the request.
C22_Witness ==
    /\ last.op = "signup"
    /\ Existed
    /\ last.ret = "False"
    /\ users[last.email].ownedKitchens # <<>>
    /\ users[last.email].name # last.name
    /\ users[last.email].auth # Hash(last.password)

\* C23: auth tokens round-trip: get_auth_token_owner(t) returns email e
\* exactly when generate_auth_token(e) returned t and t was not passed to
\* delete_auth_token since; it returns no value for a token that was never
\* generated or was deleted; deleting a token leaves the owner of every
\* other token unchanged.
C23_AuthTokensRoundTrip ==
    /\ \A t \in TokenIds :
          get_auth_token_owner(World, t) =
             IF t \in DOMAIN last.issued THEN <<last.issued[t]>> ELSE None
    /\ last.op = "get_auth_token_owner" =>
          last.ret = IF last.token[1] \in DOMAIN last.issued
                     THEN <<last.issued[last.token[1]]>> ELSE None
    /\ last.op = "delete_auth_token" =>
          /\ get_auth_token_owner(World, last.token[1]) = None
          /\ \A t \in TokenIds \ {last.token[1]} :
                get_auth_token_owner(World, t) =
                   get_auth_token_owner([authTokens |-> last.before.authTokens], t)

\* One of two tokens in use was deleted and the other one still has its
\* owner.
C23_Witness ==
    /\ last.op = "delete_auth_token"
    /\ DOMAIN last.before.authTokens = TokenIds
    /\ \E t \in TokenIds : get_auth_token_owner(World, t) # None

----------------------------------------------------------------------------
(* SearchClient: the default-product buffer and the engine's errors
   (specification SpecSearch).  The engine answers a search with the hits,
   with the error code "index_not_found" when nothing was ever added to the
   index, or with another failure (an API error of another code, or no
   connection). *)

\* The buffer length at which index_default_products flushes: 1000 in
\* search.py, scaled down.
FlushAt == 3

EngineFaults == {NoExc, "invalid_api_key", "MeiliSearchCommunicationError"}

\* self._client.index(index_name).search(query)
engine_search(w, index_name, query, fault) ==
    IF fault # NoExc THEN [error |-> fault, hits |-> {}]
    ELSE IF index_name \notin DOMAIN w.index
         THEN [error |-> "index_not_found", hits |-> {}]
         ELSE [error |-> NoExc, hits |-> _search_index(w, index_name, query)]

\* Faulty variant of search_index_call: every error gives an empty result.
search_index_call_quiet(w, index_name, query, fault) ==
    [exc |-> NoExc, ids |-> engine_search(w, index_name, query, fault).hits]

\* _search_index with the engine's answer: the try / except of search.py.
search_index_call(w, index_name, query, fault) ==
    LET search_result == engine_search(w, index_name, query, fault)
    IN IF search_result.error = NoExc
       THEN [exc |-> NoExc, ids |-> search_result.hits]
       ELSE IF search_result.error = "index_not_found"
            THEN [exc |-> NoExc, ids |-> {}]
            ELSE [exc |-> search_result.error, ids |-> {}]

\* The add_documents calls that _add_products_to_index makes: none for an
\* empty dict.
Submitted(product_names) ==
    IF DOMAIN product_names = {} THEN <<>> ELSE <<product_names>>

flush_default_index_queue(w) ==
    [_add_products_to_index(w, DefaultIndex, w.buffer) EXCEPT !.buffer = <<>>]

\* self._default_index_buffer.update(product_names)
Queued(w, product_names) ==
    [w EXCEPT !.buffer =
        [x \in (DOMAIN w.buffer) \cup (DOMAIN product_names) |->
            IF x \in DOMAIN product_names THEN product_names[x] ELSE w.buffer[x]]]

\* Faulty variant of MustFlush: one entry too late.
MustFlushLate(w) == Cardinality(DOMAIN w.buffer) > FlushAt

MustFlush(w) == Cardinality(DOMAIN w.buffer) >= FlushAt

index_default_products(w, product_names) ==
    IF MustFlush(Queued(w, product_names))
    THEN flush_default_index_queue(Queued(w, product_names))
    ELSE Queued(w, product_names)

\* product_id is the draw of _gen_random_id.
create_default_product(w, name, category, product_id) ==
    Return(index_default_products(
               [w EXCEPT !.products =
                   MapPut(@, product_id, [name |-> name, category |-> category])],
               product_id :> name),
           product_id)

DefaultIds == 1..(FlushAt + 2)
SearchIndexes == {DefaultIndex, GroceryIndex("k1")}

InitSearch ==
    /\ users = <<>>
    /\ kitchens = <<>>
    /\ products = <<>>
    /\ authTokens = <<>>
    /\ index = <<>>
    /\ utcOffset = 0
    /\ ws_manager = WsInit
    /\ clients = [s \in Sessions |-> NoClient]
    /\ inflight = [s \in Sessions |-> NoRequest]
    /\ _default_index_buffer = <<>>
    /\ scraper = NoScraper
    /\ networker = NetworkerInit
    /\ orchestrator = NotStarted
    /\ last = NoCall

SearchCall(w, call) ==
    /\ Commit(w)
    /\ last' = [call EXCEPT !.before = [index |-> index,
                                         buffer |-> _default_index_buffer]]
    /\ UNCHANGED <<utcOffset, ws_manager, clients, inflight, scraper,
                   networker, orchestrator>>

NoSearchCall ==
    [op |-> "none", exc |-> NoExc, sent |-> <<>>, batch |-> <<>>, index_name |-> <<>>,
     query |-> "", fault |-> NoExc, ids |-> {}, before |-> <<>>]

\* The next draw of _gen_random_id is an id that no product has.
CreateDefaultProduct ==
    \E product_id \in DefaultIds :
    \E name \in {IF product_id % 2 = 1 THEN "Apple" ELSE "Bread"} :
       /\ product_id \notin DOMAIN products
       /\ \A x \in DefaultIds : x < product_id => x \in DOMAIN products
       /\ SearchCall(create_default_product(World, name, "Fruit", product_id),
                     [NoSearchCall EXCEPT
                         !.op = "index_default_products",
                         !.batch = product_id :> name,
                         !.sent = IF MustFlush(Queued(World, product_id :> name))
                                  THEN Submitted(Queued(World, product_id :> name).buffer)
                                  ELSE <<>>])

\* index_default_products with two products at once.
IndexDefaultProducts ==
    \E x, y \in DOMAIN products :
       /\ x < y
       /\ \E batch \in {[z \in {x, y} |-> products[z].name]} :
             SearchCall(index_default_products(World, batch),
                        [NoSearchCall EXCEPT
                            !.op = "index_default_products",
                            !.batch = batch,
                            !.sent = IF MustFlush(Queued(World, batch))
                                     THEN Submitted(Queued(World, batch).buffer)
                                     ELSE <<>>])

FlushDefaultIndexQueue ==
    SearchCall(flush_default_index_queue(World),
               [NoSearchCall EXCEPT !.op = "flush_default_index_queue",
                                    !.sent = Submitted(_default_index_buffer)])

IndexGroceryProducts ==
    \E x \in (DOMAIN products) \cap {1, 2} :
       SearchCall(index_grocery_products(World, "k1", x :> products[x].name),
                  [NoSearchCall EXCEPT !.op = "index_grocery_products"])

SearchIndex ==
    \E index_name \in SearchIndexes, query \in {"", "Apple"}, fault \in EngineFaults :
    \E r \in {search_index_call(World, index_name, query, fault)} :
       SearchCall(World, [NoSearchCall EXCEPT
                             !.op = "_search_index", !.index_name = index_name,
                             !.query = query, !.fault = fault,
                             !.exc = r.exc, !.ids = r.ids])

NextSearch ==
    \/ CreateDefaultProduct
    \/ IndexDefaultProducts
    \/ FlushDefaultIndexQueue
    \/ IndexGroceryProducts
    \/ SearchIndex

SpecSearch == InitSearch /\ [][NextSearch]_vars

\* C24: a search of an index that does not exist yet (nothing was ever
\* indexed into it), per-kitchen or default, returns an empty list of ids and
\* no error; any other error of the search engine reaches the caller
\* unchanged.
C24_MissingIndexIsEmpty ==
    last.op = "_search_index" =>
        IF last.fault # NoExc
        THEN last.exc = last.fault
        ELSE /\ last.exc = NoExc
             /\ last.index_name \notin DOMAIN index => last.ids = {}
             /\ last.index_name \in DOMAIN index =>
                   last.ids = {x \in DOMAIN index[last.index_name] :
                                  Matches(last.query, index[last.index_name][x])}

\* The default index was searched while products were still buffered and
\* none had been sent to the engine.
C24_Witness ==
    /\ last.op = "_search_index"
    /\ last.fault = NoExc
    /\ last.index_name = DefaultIndex
    /\ DefaultIndex \notin DOMAIN index
    /\ _default_index_buffer # <<>>
    /\ last.exc = NoExc
    /\ last.ids = {}

\* dict.update: the entries of batch added to (or written over) those of old.
Updated(old, batch) ==
    [x \in (DOMAIN old) \cup (DOMAIN batch) |->
        IF x \in DOMAIN batch THEN batch[x] ELSE old[x]]

DefaultDocs(ix) == MapGet(ix, DefaultIndex, <<>>)

\* C25: after every index_default_products call the buffer holds fewer
\* entries than the flush length (1000); a call that brings it to that length
\* or beyond sends the whole buffer to the default index as one batch and
\* clears it; flush_default_index_queue sends and clears whatever is
\* buffered and, with an empty buffer, submits nothing to the engine.
C25_BufferStaysBelowFlushLength ==
    /\ Cardinality(DOMAIN _default_index_buffer) < FlushAt
    /\ last.op = "index_default_products" =>
          LET filled == Updated(last.before.buffer, last.batch)
          IN IF Cardinality(DOMAIN filled) >= FlushAt
             THEN /\ last.sent = <<filled>>
                  /\ _default_index_buffer = <<>>
                  /\ scraper = NoScraper
                  /\ networker = NetworkerInit
                  /\ orchestrator = NotStarted
                  /\ DefaultDocs(index) = Updated(DefaultDocs(last.before.index), filled)
             ELSE /\ last.sent = <<>>
                  /\ _default_index_buffer = filled
                  /\ index = last.before.index
    /\ last.op = "flush_default_index_queue" =>
          /\ _default_index_buffer = <<>>
          /\ scraper = NoScraper
          /\ networker = NetworkerInit
          /\ orchestrator = NotStarted
          /\ IF last.before.buffer = <<>>
             THEN last.sent = <<>> /\ index = last.before.index
             ELSE /\ last.sent = <<last.before.buffer>>
                  /\ DefaultDocs(index) =
                        Updated(DefaultDocs(last.before.index), last.before.buffer)

\* A call with two products took the buffer from one below the flush length
\* to one above it, and all of it was sent.
C25_Witness ==
    /\ last.op = "index_default_products"
    /\ Cardinality(DOMAIN last.before.buffer) = FlushAt - 1
    /\ Cardinality(DOMAIN Updated(last.before.buffer, last.batch)) = FlushAt + 1
    /\ Len(last.sent) = 1
    /\ _default_index_buffer = <<>>
    /\ scraper = NoScraper
    /\ networker = NetworkerInit
    /\ orchestrator = NotStarted

\* flush_default_index_queue was called with an empty buffer when no default
\* index existed, and none was made.
C25_EmptyFlushSeen ==
    /\ last.op = "flush_default_index_queue"
    /\ last.before.buffer = <<>>
    /\ DefaultIndex \notin DOMAIN index

----------------------------------------------------------------------------
(* The catalog scraper (scraper.py, specification SpecScrape).  The
   retailer's API knows, for every category, its number of pages; a page of
   the category holds one product.  What the API answers for a page number
   outside 1..total_pages is not known: it may or may not hold a product.
   The tasks that asyncio.gather runs take their turns in any order; the
   fetch of a page and the creation of its products are one step. *)

MaxPages == 2
Categories == [c \in {"c1", "c2"} |-> IF c = "c1" THEN "Fruit" ELSE "Bakery"]
PageNumbers == 0..(MaxPages + 1)

\* range(total_pages)
range(n) == 0..(n - 1)

\* scrape_page: the request is made, and every product of the answer is
\* given to create_default_product.
scrape_page(w, category_slug, has_product) ==
    IF has_product
    THEN create_default_product(w, IF category_slug = "c1" THEN "Apple" ELSE "Bread",
                                Categories[category_slug],
                                Cardinality(DOMAIN w.products) + 1)
    ELSE w

Scraped(w, category_slug, page, sc) ==
    /\ Commit(w)
    /\ scraper' = [sc EXCEPT !.fetched[category_slug][page] = @ + 1]
    /\ last' = [op |-> "scrape_page", exc |-> NoExc]
    /\ UNCHANGED <<utcOffset, ws_manager, clients, inflight,
                   networker, orchestrator>>

\* main and Scraper.scrape: one scrape_category task for every category.
ScrapeStart ==
    /\ scraper.pc = "idle"
    /\ \E total_pages \in [DOMAIN Categories -> 1..MaxPages] :
          scraper' = [pc |-> "running",
                      total_pages |-> total_pages,
                      task |-> [c \in DOMAIN Categories |-> "first"],
                      pending |-> [c \in DOMAIN Categories |-> {}],
                      fetched |-> [c \in DOMAIN Categories |->
                                      [n \in PageNumbers |-> 0]]]
    /\ last' = [op |-> "scrape", exc |-> NoExc]
    /\ UNCHANGED <<users, kitchens, products, authTokens, index,
                   _default_index_buffer, utcOffset, ws_manager, clients, inflight,
                   networker, orchestrator>>

\* scrape_category up to its gather: page 1 is fetched, and a scrape_page
\* task is made for every i in range(total_pages).
ScrapeFirstPage ==
    \E c \in DOMAIN Categories :
       /\ scraper.pc = "running"
       /\ scraper.task[c] = "first"
       /\ Scraped(scrape_page(World, c, TRUE), c, 1,
                  [scraper EXCEPT !.task[c] = "rest",
                                  !.pending[c] = range(scraper.total_pages[c])])

\* One of the scrape_page tasks of a category's gather.
ScrapeOtherPage ==
    \E c \in DOMAIN Categories :
       /\ scraper.pc = "running"
       /\ scraper.task[c] = "rest"
       /\ \E i \in scraper.pending[c] :
          \E has_product \in IF i \in 1..scraper.total_pages[c]
                             THEN {TRUE} ELSE BOOLEAN :
             Scraped(scrape_page(World, c, has_product), c, i,
                     [scraper EXCEPT
                         !.pending[c] = @ \ {i},
                         !.task[c] = IF scraper.pending[c] = {i}
                                     THEN "done" ELSE "rest"])

\* Every scrape_category task is done: scrape returns, and main after it.
ScrapeEnd ==
    /\ scraper.pc = "running"
    /\ \A c \in DOMAIN Categories : scraper.task[c] = "done"
    /\ scraper' = [scraper EXCEPT !.pc = "done"]
    /\ last' = [op |-> "main", exc |-> NoExc]
    /\ UNCHANGED <<users, kitchens, products, authTokens, index,
                   _default_index_buffer, utcOffset, ws_manager, clients, inflight,
                   networker, orchestrator>>

NextScrape == ScrapeStart \/ ScrapeFirstPage \/ ScrapeOtherPage \/ ScrapeEnd

SpecScrape == InitSearch /\ [][NextScrape]_vars

\* C26: when the scraper's run is complete the default-product buffer has
\* been flushed: every product that the run created is in the default search
\* index, a remainder of fewer products than the flush length included.
C26_RunEndsFlushed ==
    scraper.pc = "done" =>
        /\ _default_index_buffer = <<>>
        /\ \A x \in DOMAIN products :
              /\ DefaultIndex \in DOMAIN index
              /\ x \in DOMAIN index[DefaultIndex]

\* What the code does for C26: at the end of the run every product is in the
\* index or still in the buffer.
C26_RunEndsIndexedOrBuffered ==
    scraper.pc = "done" =>
        \A x \in DOMAIN products :
           \/ x \in DOMAIN _default_index_buffer
           \/ DefaultIndex \in DOMAIN index /\ x \in DOMAIN index[DefaultIndex]

\* C27: for every category the scraper fetches page 1, reads total_pages
\* from the answer and fetches the pages 2..total_pages: every page number
\* in 1..total_pages is fetched exactly once and no page outside that range
\* is requested.
C27_EveryPageOnce ==
    /\ scraper.pc # "idle" =>
          \A c \in DOMAIN Categories :
             \A n \in PageNumbers \ (1..scraper.total_pages[c]) :
                scraper.fetched[c][n] = 0
    /\ scraper.pc = "done" =>
          \A c \in DOMAIN Categories :
             \A n \in 1..scraper.total_pages[c] : scraper.fetched[c][n] = 1

\* What the code does for C27: page 1 once, then every page of
\* range(total_pages), which is 0..total_pages - 1.
C27_PagesOfRange ==
    scraper.pc = "done" =>
        \A c \in DOMAIN Categories :
           \A n \in PageNumbers :
              scraper.fetched[c][n] =
                 (IF n = 1 THEN 1 ELSE 0)
                 + (IF n \in range(scraper.total_pages[c]) THEN 1 ELSE 0)

(***************************************************************************)
(* The client's Networker (utils/net.py).  run gathers two tasks of one    *)
(* event loop: _run_http, which executes the queued requests, and _run_ws, *)
(* which waits for a session token.  networker.log is the history of what  *)
(* was scheduled, started and ended; an exception of a request leaves      *)
(* _run_http, the gather and run, and nothing runs after it.               *)
(***************************************************************************)

\* How many requests the client schedules in one run.
MaxRequests == 3

RequestKinds == {"req_login", "req_signup", "req_default_product_info"}

\* The status of the server's answer.
Statuses == {200, 401, 409, 500}

\* list.pop() without an index: the most recently queued element.
pop_last(queue) ==
    [item |-> queue[Len(queue)], rest |-> SubSeq(queue, 1, Len(queue) - 1)]

\* list.pop(0): the least recently queued element.
pop_0(queue) == [item |-> Head(queue), rest |-> Tail(queue)]

\* The req closure of a scheduling method, given the status of the answer:
\* the event handler it calls, or the exception it raises.
req(kind, status) ==
    CASE kind = "req_login" ->
           IF status = 200 THEN "on_login(True)"
           ELSE IF status = 401 THEN "on_login(False)"
           ELSE "Exception"
      [] kind = "req_signup" ->
           IF status = 200 THEN "on_login(True)"
           ELSE IF status = 409 THEN "on_login(False)"
           ELSE "Exception"
      [] OTHER ->
           IF status = 200 THEN "on_default_product_info"
           ELSE "AssertionError"

Raised(result) == result \in {"Exception", "AssertionError"}

Logged(ev, r, result) ==
    [ev |-> ev, id |-> r.id, kind |-> r.kind, result |-> result]

InitNet == InitSearch

\* req_login, req_signup, req_default_product_info: append the closure.
ScheduleReq(kind) ==
    /\ networker.running
    /\ networker.scheduled < MaxRequests
    /\ LET r == [id |-> networker.scheduled + 1, kind |-> kind]
       IN  networker' = [networker EXCEPT
                           !._queued_reqs = Append(@, r),
                           !.scheduled = @ + 1,
                           !.log = Append(@, Logged("sched", r, ""))]
    /\ last' = [op |-> kind, exc |-> NoExc]
    /\ UNCHANGED <<users, kitchens, products, authTokens, index,
                   _default_index_buffer, utcOffset, ws_manager, clients,
                   inflight, scraper, orchestrator>>

\* _run_http finds a queued request, pops it and awaits it: the request is
\* sent.
RunHttpTake ==
    /\ networker.running
    /\ networker.requesting = <<>>
    /\ networker._queued_reqs # <<>>
    /\ LET popped == pop_0(networker._queued_reqs)
       IN  networker' = [networker EXCEPT
                           !._queued_reqs = popped.rest,
                           !.requesting = <<popped.item>>,
                           !.log = Append(@, Logged("start", popped.item, ""))]
    /\ last' = [op |-> "_run_http", exc |-> NoExc]
    /\ UNCHANGED <<users, kitchens, products, authTokens, index,
                   _default_index_buffer, utcOffset, ws_manager, clients,
                   inflight, scraper, orchestrator>>

\* The answer of the request in flight arrives: req calls its handler and
\* _run_http goes on, or req raises and run ends with the exception.
RunHttpResponse(status) ==
    /\ networker.running
    /\ networker.requesting # <<>>
    /\ LET r == networker.requesting[1]
           result == req(r.kind, status)
       IN  /\ networker' = [networker EXCEPT
                              !.requesting = <<>>,
                              !.running = ~Raised(result),
                              !.log = Append(@, Logged("end", r, result))]
           /\ last' = [op |-> r.kind, status |-> status,
                       exc |-> IF Raised(result) THEN result ELSE NoExc]
    /\ UNCHANGED <<users, kitchens, products, authTokens, index,
                   _default_index_buffer, utcOffset, ws_manager, clients,
                   inflight, scraper, orchestrator>>

\* _run_ws finds no session token, sleeps and looks again.
RunWsWaits ==
    /\ networker.running
    /\ networker._ws_session_token = <<>>
    /\ last' = [op |-> "_run_ws", exc |-> NoExc]
    /\ UNCHANGED <<users, kitchens, products, authTokens, index,
                   _default_index_buffer, utcOffset, ws_manager, clients,
                   inflight, scraper, networker, orchestrator>>

ScheduleAny == \E kind \in RequestKinds : ScheduleReq(kind)

ResponseAny == \E status \in Statuses : RunHttpResponse(status)

NextNet == ScheduleAny \/ RunHttpTake \/ ResponseAny \/ RunWsWaits

\* The event loop keeps running the two tasks of run; whether the client
\* schedules another request is up to the client.
SpecNet ==
    /\ InitNet
    /\ [][NextNet]_vars
    /\ WF_vars(RunHttpTake)
    /\ WF_vars(ResponseAny)
    /\ WF_vars(RunWsWaits)

\* The positions in the log of the entries of one kind of event.
Events(ev) == {i \in DOMAIN networker.log : networker.log[i].ev = ev}

\* The ids of the entries of one kind of event, in the order of the log.
IdsOf(ev) ==
    LET RECURSIVE Walk(_)
        Walk(i) == IF i > Len(networker.log) THEN <<>>
                   ELSE IF networker.log[i].ev = ev
                        THEN <<networker.log[i].id>> \o Walk(i + 1)
                        ELSE Walk(i + 1)
    IN  Walk(1)

LoginSucceeded ==
    \E i \in Events("end") : networker.log[i].result = "on_login(True)"

WsConnected == networker.ws = "connected"

\* C29: after a login or signup request received a successful answer, the
\* Networker eventually opens the WebSocket connection /ws/{session_token}
\* and starts its sender and receiver.
C29_LoginOpensWebSocket == LoginSucceeded ~> WsConnected

\* What the code does for C29: no step assigns _ws_session_token, and
\* _run_ws never leaves its wait.
C29_NeverConnects ==
    /\ networker._ws_session_token = <<>>
    /\ networker.ws = "waiting"

(***************************************************************************)
(* The process orchestrator (server/main.py).  A service process is        *)
(* "none" (not started), "running", "exited0" or "exited1" (it ended on    *)
(* its own, with exit code zero or not) or "stopped" (ended by main).      *)
(* orchestrator.issued holds the commands main has issued in this run;     *)
(* orchestrator.left holds the services that earlier runs left running,    *)
(* orchestrator.seen the state each process was in when main polled it.    *)
(***************************************************************************)

\* How many times the operator runs main.py.
MaxRuns == 3

Services == {"redis", "meilisearch"}

InitMain == InitSearch

\* Popen.poll(): None while the process runs, else its exit code; the code
\* tests the truth of the value, which is that of a non-zero exit code.
poll(proc) == proc = "exited1"

\* sp.run(["redis-cli", "shutdown"]) and Popen.terminate(): a running
\* process ends, any other is as it was.
Stop(proc) == IF proc = "running" THEN "stopped" ELSE proc

Ended == {"returned", "unwound"}

MainStep(o, exc) ==
    /\ orchestrator' = o
    /\ last' = [op |-> "main", exc |-> exc]
    /\ UNCHANGED <<users, kitchens, products, authTokens, index,
                   _default_index_buffer, utcOffset, ws_manager, clients,
                   inflight, scraper, networker>>

\* shutil.which("redis-stack-server"): main returns when it is not found.
MainLocate(found) ==
    /\ orchestrator.pc = "main"
    /\ MainStep([orchestrator EXCEPT
                   !.pc = IF found THEN "start_redis" ELSE "returned"], NoExc)

\* sp.Popen(["redis-server", ...]): the process starts, or Popen raises.
MainStartRedis(started) ==
    /\ orchestrator.pc = "start_redis"
    /\ IF started
       THEN MainStep([orchestrator EXCEPT !.pc = "start_meilisearch",
                                          !.redis = "running"], NoExc)
       ELSE MainStep([orchestrator EXCEPT !.pc = "unwound"],
                     "FileNotFoundError")

\* sp.Popen(["meilisearch", ...]): the process starts, or Popen raises and
\* main unwinds.
MainStartMeilisearch(started) ==
    /\ orchestrator.pc = "start_meilisearch"
    /\ IF started
       THEN MainStep([orchestrator EXCEPT !.pc = "sleep",
                                          !.meilisearch = "running"], NoExc)
       ELSE MainStep([orchestrator EXCEPT !.pc = "unwound"],
                     "FileNotFoundError")

\* A service process ends on its own while main is running.
ServiceExits(service, code) ==
    /\ orchestrator.pc \notin Ended
    /\ orchestrator[service] = "running"
    /\ orchestrator' = [orchestrator EXCEPT ![service] = code]
    /\ UNCHANGED <<users, kitchens, products, authTokens, index,
                   _default_index_buffer, utcOffset, ws_manager, clients,
                   inflight, scraper, networker, last>>

\* After time.sleep(0.1): if redis_proc.poll(), terminate Meilisearch and
\* return.
MainCheckRedis ==
    /\ orchestrator.pc = "sleep"
    /\ IF poll(orchestrator.redis)
       THEN MainStep([orchestrator EXCEPT
                        !.pc = "returned",
                        !.seen.redis = orchestrator.redis,
                        !.meilisearch = Stop(@),
                        !.issued = @ \cup {"meilisearch_proc.terminate"}],
                     NoExc)
       ELSE MainStep([orchestrator EXCEPT
                        !.pc = "check_meilisearch",
                        !.seen.redis = orchestrator.redis], NoExc)

\* If meilisearch_proc.poll(), shut Redis down and return.
MainCheckMeilisearch ==
    /\ orchestrator.pc = "check_meilisearch"
    /\ IF poll(orchestrator.meilisearch)
       THEN MainStep([orchestrator EXCEPT
                        !.pc = "returned",
                        !.seen.meilisearch = orchestrator.meilisearch,
                        !.redis = Stop(@),
                        !.issued = @ \cup {"redis-cli shutdown"}],
                     NoExc)
       ELSE MainStep([orchestrator EXCEPT
                        !.pc = "server",
                        !.seen.meilisearch = orchestrator.meilisearch],
                     NoExc)

\* try: import server, finally: shut Redis down and terminate Meilisearch.
\* The server module returns, or it is left by an exception.
MainServer(exc) ==
    /\ orchestrator.pc = "server"
    /\ MainStep([orchestrator EXCEPT
                   !.pc = IF exc = NoExc THEN "returned" ELSE "unwound",
                   !.redis = Stop(@),
                   !.meilisearch = Stop(@),
                   !.issued = @ \cup {"redis-cli shutdown",
                                      "meilisearch_proc.terminate"}],
                exc)

\* The operator runs main.py again; what the last run left running stays.
MainAgain ==
    /\ orchestrator.pc \in Ended
    /\ orchestrator.runs < MaxRuns
    /\ MainStep([NotStarted EXCEPT
                   !.runs = orchestrator.runs + 1,
                   !.left = orchestrator.left
                            \cup {s \in Services : orchestrator[s] = "running"}],
                NoExc)

LocateAny == \E found \in BOOLEAN : MainLocate(found)

StartRedisAny == \E started \in BOOLEAN : MainStartRedis(started)

StartMeilisearchAny == \E started \in BOOLEAN : MainStartMeilisearch(started)

ExitsAny ==
    \E service \in Services, code \in {"exited0", "exited1"} :
       ServiceExits(service, code)

ServerAny == \E exc \in {NoExc, "KeyboardInterrupt"} : MainServer(exc)

NextMain ==
    \/ LocateAny
    \/ StartRedisAny
    \/ StartMeilisearchAny
    \/ ExitsAny
    \/ MainCheckRedis
    \/ MainCheckMeilisearch
    \/ ServerAny
    \/ MainAgain

SpecMain == InitMain /\ [][NextMain]_vars

StartedAService == orchestrator.redis # "none"

\* C30: whenever main has returned or unwound after it started a service
\* process, no service that it started is left running.
C30_NoServiceLeftRunning ==
    (orchestrator.pc \in Ended /\ StartedAService) =>
        \A s \in Services : orchestrator[s] # "running"

\* What the code does for C30: once both services were started, main ends
\* with neither of them running.
C30_BothStartedNoneLeft ==
    (orchestrator.pc \in Ended /\ orchestrator.meilisearch # "none") =>
        \A s \in Services : orchestrator[s] # "running"

\* C31: main starts the web server only if both services were still
\* running when it polled them after the start-up delay: a process that had
\* exited, with whatever exit status, keeps the server from being imported.
C31_ServerOnlyIfBothRunning ==
    orchestrator.pc = "server" =>
        \A s \in Services : orchestrator.seen[s] = "running"

\* What the code does for C31: the server is not imported when a polled
\* process had exited with a non-zero status, and the other service is then
\* stopped; a process that exited with status zero passes the poll.
C31_ServerUnlessNonZeroExit ==
    /\ orchestrator.pc = "server" =>
          \A s \in Services : orchestrator.seen[s] # "exited1"
    /\ (orchestrator.pc = "returned"
          /\ \E s \in Services : orchestrator.seen[s] = "exited1") =>
          \A s \in Services : orchestrator[s] # "running"

----------------------------------------------------------------------------
(* The inventory writes and the inventory search index *)

InInventoryIndex(k, p) ==
    /\ InventoryIndex(k) \in DOMAIN index
    /\ p \in DOMAIN index[InventoryIndex(k)]

InGroceryIndex(k, p) ==
    /\ GroceryIndex(k) \in DOMAIN index
    /\ p \in DOMAIN index[GroceryIndex(k)]

TotalStock(k, p) == SumValues(BucketsOf(World, k, p))

\* A use_product call of one (expiry, amount) pair that writes an amount
\* <= 0 to the bucket: the bucket is deleted, the other buckets are as they
\* were, and the product is out of the inventory index.
ZeroWriteDeindexes ==
    \A k \in KitchenIds, p \in StockProducts :
       (/\ last'.op = "use_product"
        /\ last'.exc = NoExc
        /\ last'.kitchen = k
        /\ last'.product = p
        /\ ~last'.move_to_grocery
        /\ Len(last'.expiry_amounts) = 1) =>
           LET e == last'.expiry_amounts[1][1]
               b == Buckets(k, p)
           IN  MapGet(b, e, 0) - last'.expiry_amounts[1][2] <= 0 =>
                  /\ Buckets(k, p)' = [x \in (DOMAIN b) \ {e} |-> b[x]]
                  /\ ~InInventoryIndex(k, p)'

\* A buy_product call of a positive amount for a product that has stock:
\* a product that is not in the inventory index is not put into it.
PositiveWriteKeepsDeindexed ==
    \A k \in KitchenIds, p \in StockProducts :
       (/\ last'.op = "buy_product"
        /\ last'.exc = NoExc
        /\ last'.kitchen = k
        /\ last'.product = p
        /\ last'.amount > 0
        /\ TotalStock(k, p) > 0
        /\ ~InInventoryIndex(k, p)) =>
           /\ TotalStock(k, p)' > 0
           /\ ~InInventoryIndex(k, p)'

\* C32: _set_inv_product_count with amount <= 0 deletes only the given
\* expiry bucket and removes the product from the inventory search index,
\* also when other buckets still hold stock; a later positive write to a
\* product whose total stock is positive does not index it again.
C32_ZeroWriteDeindexesAlways ==
    [][ZeroWriteDeindexes /\ PositiveWriteKeepsDeindexed]_vars

\* A product with stock was bought again and is still not in the index.
C32_Witness ==
    /\ last.op = "buy_product"
    /\ last.exc = NoExc
    /\ last.amount > 0
    /\ last.found.total > 0
    /\ ~InInventoryIndex(last.kitchen, last.product)

\* One bucket was used up while another one holds stock.
C32_StockedAndDeindexed ==
    /\ last.op = "use_product"
    /\ last.exc = NoExc
    /\ Len(last.expiry_amounts) = 1
    /\ TotalStock(last.kitchen, last.product) > 0
    /\ TotalStock(last.kitchen, last.product) < last.found.total
    /\ ~InInventoryIndex(last.kitchen, last.product)

----------------------------------------------------------------------------
(* publish_update and the callbacks of subscribe (specification SpecWs) *)

NoCallbacks(m, t) ==
    t \notin DOMAIN m._topic_based_updaters \/ m._topic_based_updaters[t] = {}

\* C33: publish_update calls every callback registered for every listed
\* topic, and for a listed topic without registered callbacks (or never
\* subscribed to) it does nothing and completes without an exception.
C33_PublishWithoutCallbacksCompletes ==
    (/\ last.op = "publish_update"
     /\ \A t \in Range(last.topics) : NoCallbacks(ws_manager, t)) =>
        /\ last.exc = NoExc
        /\ SentAll(ws_manager) = last.sent

\* What the code does for C33: no topic is ever a key of
\* _topic_based_updaters, and every publish_update of a topic raises
\* KeyError, nothing being sent.
C33_PublishRaises ==
    /\ ws_manager._topic_based_updaters = <<>>
    /\ last.op = "publish_update" =>
          /\ last.exc = "KeyError"
          /\ SentAll(ws_manager) = last.sent

\* C34: when a session subscribed with several topics in one call, a
\* publish to one of them, t, sends on the session's connection the
\* fragment of t's own renderer.
C34_TopicRendersItsOwnFragment ==
    (/\ last.op = "publish_update"
     /\ Len(last.topics) = 1) =>
        \A s \in Sessions :
           (/\ clients[s].open
            /\ Cardinality(clients[s].asked) > 1
            /\ last.topics[1] \in clients[s].asked) =>
               Sent(ws_manager, s)
                  = Append(last.sent[s], Rendered(last.topics[1]))

\* What the code does for C34: a publish sends nothing to any session.
C34_PublishSendsNothing ==
    last.op = "publish_update" => SentAll(ws_manager) = last.sent

----------------------------------------------------------------------------
(* POST /kitchens/{id}/inventory/{pid}/use (specification SpecHttp) *)

\* The request was accepted up to the test of the query: the client is
\* identified and the product's page model could be built.
UseAccepted(cookie, k, p) ==
    /\ extract_client_email(World, cookie) # None
    /\ inventory_product_page_model(World, extract_client_email(World, cookie)[1],
                                    k, p).exc = NoExc

\* One request to the route, for a kitchen stocked by the list operations.
UseInventoryProduct(cookie, k, p, move_to_grocery, expiry_amounts) ==
    \E r \in {use_inventory_product(World, cookie, k, p, move_to_grocery,
                                    expiry_amounts)} :
       /\ Units(r.w, k, p) <= MaxUnits
       /\ Commit(r.w)
       /\ last' = [op |-> "use_inventory_product", exc |-> r.w.exc,
                   kitchen |-> k, product |-> p,
                   move_to_grocery |-> move_to_grocery,
                   expiry_amounts |-> expiry_amounts,
                   accepted |-> UseAccepted(cookie, k, p),
                   status |-> r.status, location |-> r.location,
                   published |-> r.published,
                   wrote |-> Wrote(r.w),
                   found |-> Found(k, p),
                   grocery |-> GroceryOf(World, k),
                   indexed |-> InGroceryIndex(k, p)]
       /\ UNCHANGED <<utcOffset, ws_manager, clients, inflight, scraper,
                      networker, orchestrator>>

UseRequest ==
    \E cookie \in {None, <<"t1">>}, k \in StockedKitchens, m \in MoveToGrocery,
       e \in Expiries, a \in UseAmounts :
          UseInventoryProduct(cookie, k, "p1", m, <<<<e, a>>>>)

NextUse == SetGroc \/ Buy \/ UseRequest

SpecUse == InitHttp /\ [][NextUse]_vars

\* C35: POST .../inventory/{pid}/use without a move-to-grocery query flag
\* returns the confirmation fragment and changes nothing, nothing being
\* published; with the flag present and not "true" it reduces the inventory,
\* leaves the grocery list as it was and publishes the inventory topics only.
C35_UseFlag ==
    (last.op = "use_inventory_product" /\ last.accepted) =>
        LET k == last.kitchen
            p == last.product
            e == last.expiry_amounts[1][1]
            used == last.expiry_amounts[1][2]
            b == last.found.buckets
        IN  /\ last.move_to_grocery = None =>
                  /\ last.status = 200
                  /\ last.location = <<>>
                  /\ last.published = <<>>
                  /\ ~last.wrote
            /\ (last.move_to_grocery = <<FALSE>> /\ e \in DOMAIN b) =>
                  /\ Buckets(k, p) =
                        IF b[e] - used <= 0
                        THEN [x \in (DOMAIN b) \ {e} |-> b[x]]
                        ELSE [b EXCEPT ![e] = @ - used]
                  /\ GroceryOf(World, k) = last.grocery
                  /\ InGroceryIndex(k, p) = last.indexed
                  /\ last.published = <<InventoryTopics(k, p)>>

\* Stock was used by a request whose flag was not "true", and the product
\* is not on the grocery list.
C35_Witness ==
    /\ last.op = "use_inventory_product"
    /\ last.move_to_grocery = <<FALSE>>
    /\ last.wrote
    /\ last.found.total > TotalStock(last.kitchen, last.product)
    /\ last.product \notin DOMAIN kitchens[last.kitchen].grocery

\* The confirmation fragment was returned for a stocked product.
C35_ConfirmationSeen ==
    /\ last.op = "use_inventory_product"
    /\ last.move_to_grocery = None
    /\ last.found.total > 0
    /\ last.status = 200

----------------------------------------------------------------------------
(* The lists and their search indexes (specification Spec) *)

\* C36: after any sequence of set_groc_product_count, buy_product and
\* use_product calls, a product is in a kitchen's grocery search index
\* exactly if the kitchen's grocery map has an entry for it.
C36_GroceryIndexMatchesMap ==
    \A k \in DOMAIN kitchens, p \in StockProducts :
       InGroceryIndex(k, p) <=> p \in DOMAIN kitchens[k].grocery

\* A product left the grocery list by a purchase and came back by a use
\* with a move to the grocery list.
C36_Witness ==
    /\ last.op = "use_product"
    /\ last.exc = NoExc
    /\ last.move_to_grocery
    /\ last.found.grocery = 0
    /\ InGroceryIndex(last.kitchen, last.product)
    /\ last.product \in DOMAIN kitchens[last.kitchen].grocery

\* The products of the kitchen's inventory page for the empty query.
OnInventoryPage(k) ==
    search_inventory_products(World, k, "")

\* C37: after any sequence of buy_product and use_product calls, every
\* product whose total inventory amount in a kitchen is positive is in the
\* kitchen's inventory search index, and so on the inventory page for the
\* empty query.
C37_StockedIsIndexed ==
    \A k \in DOMAIN kitchens, p \in StockProducts :
       TotalStock(k, p) > 0 =>
          /\ InInventoryIndex(k, p)
          /\ p \in OnInventoryPage(k)

\* What the code does for C37: a product is in the inventory index only if
\* it has stock, and a stocked product is missing from the index only after
\* a write of an amount <= 0 to one of its buckets took it out.
C37_IndexedIsStocked ==
    /\ \A k \in DOMAIN kitchens, p \in StockProducts :
          InInventoryIndex(k, p) => TotalStock(k, p) > 0
    /\ (/\ last.op = "buy_product"
        /\ last.exc = NoExc
        /\ last.amount > 0
        /\ last.found.total = 0) =>
          InInventoryIndex(last.kitchen, last.product)

\* C38: use_product is all-or-nothing: when it fails on one (expiry,
\* amount) pair, no inventory bucket and no grocery amount of the kitchen
\* has been changed by the call.
C38_UseIsAllOrNothing ==
    (last.op = "use_product" /\ last.exc # NoExc) =>
        Found(last.kitchen, last.product) = last.found

\* What the code does for C38: a failed use_product has not touched the
\* grocery list, and has not touched the inventory when the pair it failed
\* on is the first one; the pairs before the failing one stay applied.
C38_FailedUseKeepsEarlierWrites ==
    (last.op = "use_product" /\ last.exc # NoExc) =>
        LET first == last.expiry_amounts[1][1]
        IN  /\ last.exc = "KeyError"
            /\ Found(last.kitchen, last.product).grocery = last.found.grocery
            /\ (first # None /\ first \notin DOMAIN last.found.buckets) =>
                  Found(last.kitchen, last.product) = last.found

----------------------------------------------------------------------------
(* Owners and members (specification SpecShare) *)

\* C39: after any sequence of create_kitchen, share_kitchen and
\* leave_kitchen, each user's owned-kitchen list and shared-kitchen list
\* are disjoint and free of duplicates, and the owner of a kitchen is not in
\* the kitchen's list of non-admin members.
C39_OwnedAndSharedDisjoint ==
    /\ \A e \in DOMAIN users :
          /\ NoDuplicates(users[e].ownedKitchens)
          /\ NoDuplicates(users[e].sharedKitchens)
          /\ \A k \in KitchenIds :
                ~(/\ Contains(users[e].ownedKitchens, k)
                  /\ Contains(users[e].sharedKitchens, k))
    /\ \A k \in DOMAIN kitchens, e \in DOMAIN users :
          Contains(users[e].ownedKitchens, k) =>
             ~Contains(kitchens[k].nonAdmins, e)

\* A kitchen that has a member was shared with its owner.
C39_Witness ==
    /\ last.op = "share_kitchen"
    /\ last.exc = NoExc
    /\ last.email \in DOMAIN users
    /\ Contains(users[last.email].ownedKitchens, last.kitchen)
    /\ kitchens[last.kitchen].nonAdmins # <<>>

====
